---------------------------- MODULE Spec2Model ----------------------------
(***************************************************************************)
(* A model of the multi-line text editing core of bubbles-cn:              *)
(*   - textarea/textarea.go      : buffer, cursor, soft wrap (wrap)        *)
(*   - textarea/memoization      : the LRU MemoCache                       *)
(* Runes are modelled by one-character strings.  Rows, columns and slice   *)
(* indices keep the 0-based values of the Go code; a TLA+ sequence index   *)
(* is the Go index plus one.                                               *)
(***************************************************************************)
EXTENDS Integers, Sequences, FiniteSets, TLC

(***************************************************************************)
(* Bounds of the model.                                                    *)
(***************************************************************************)
\* longest rune sequence handed to wrap in SpecWrap
MaxWrapLen == 5
\* widest wrap width handed to wrap in SpecWrap
MaxWrapWidth == 3
\* widest text width of the text area
MaxWidth == 2
\* largest Length() of the document of the text area (an edit that would
\* make it longer is not taken)
MaxDoc == 3
\* largest capacity, number of keys and number of values of a MemoCache
MaxCap == 2
NumKeys == 3
NumVals == 2
\* threads sharing one MemoCache, and the largest capacity, the number of
\* keys and the number of values of that cache
NumThreads == 2
MaxLockCap == 1
NumLockKeys == 2
NumLockVals == 2
\* largest capacity of the wrap cache of a text area
MaxMemoCap == 2
\* the character limit and the maximum height of a text area configured
\* with limits
SmallCharLimit == 2
SmallMaxHeight == 2
\* number of keys pressed in a navigation scenario
MaxKeys == 4
\* longest line and largest number of lines of a document an editing
\* operation is applied to in SpecEdit
MaxEdLine == 2
MaxEdLines == 2

(***************************************************************************)
(* Runes.                                                                  *)
(*   "a"  a narrow lower-case letter        (display width 1)               *)
(*   "A"  its upper-case / title-case form  (display width 1)               *)
(*   "W"  an East-Asian wide glyph, e.g. U+4F60 (display width 2)           *)
(*   " "  U+0020                                                            *)
(*   "_"  another white-space codepoint, e.g. U+00A0 (width 1)              *)
(*   NL   the line-break '\n'                                               *)
(***************************************************************************)
NL == "\n"

\* unicode.IsSpace
IsSpace(r) == r \in {" ", "_", NL}

\* rw.RuneWidth
RuneWidth(r) == IF r \in {"W", "U+4F60", "U+597D"} THEN 2 ELSE 1

\* uniseg.StringWidth(string(runes)); no combining marks in the alphabet,
\* so the width of a string is the sum of the widths of its runes
RECURSIVE StringWidth(_)
StringWidth(s) ==
    IF s = <<>> THEN 0 ELSE RuneWidth(Head(s)) + StringWidth(Tail(s))

\* repeatSpaces
RECURSIVE repeatSpaces(_)
repeatSpaces(n) == IF n <= 0 THEN <<>> ELSE <<" ">> \o repeatSpaces(n - 1)

max(a, b) == IF a > b THEN a ELSE b
min(a, b) == IF a < b THEN a ELSE b

\* clamp(v, low, high)
clamp(v, low, high) ==
    LET lo == IF high < low THEN high ELSE low
        hi == IF high < low THEN low ELSE high
    IN  min(hi, max(lo, v))

\* Go slice expressions s[lo:hi] and s[lo:] on a sequence (0-based bounds)
Slice(s, lo, hi) == SubSeq(s, lo + 1, hi)
SliceFrom(s, lo) == SubSeq(s, lo + 1, Len(s))

(***************************************************************************)
(* wrap: the soft-wrap algorithm.  The loop state is the tuple of locals   *)
(* (lines, word, row, spaces); row stays the 0-based index of the last     *)
(* line.                                                                   *)
(***************************************************************************)
\* WrapSpaceBranch with the width test lost: the word and its spaces always
\* stay on the current line
WrapSpaceBranchNoWrap(st, word, spaces, width) ==
    [lines  |-> [st.lines EXCEPT ![st.row + 1] =
                               @ \o word \o repeatSpaces(spaces)],
     word   |-> <<>>,
     row    |-> st.row,
     spaces |-> 0]

\* the body of the "if spaces > 0" branch: the word and its spaces go to the
\* current line when they fit, and to a new line otherwise
WrapSpaceBranch(st, word, spaces, width) ==
    IF StringWidth(st.lines[st.row + 1]) + StringWidth(word) + spaces > width
    THEN [lines  |-> Append(st.lines, word \o repeatSpaces(spaces)),
          word   |-> <<>>,
          row    |-> st.row + 1,
          spaces |-> 0]
    ELSE [lines  |-> [st.lines EXCEPT ![st.row + 1] =
                                    @ \o word \o repeatSpaces(spaces)],
          word   |-> <<>>,
          row    |-> st.row,
          spaces |-> 0]

\* WrapWordBranch flushing one column early (>= for >)
WrapWordBranchEarly(st, word, width) ==
    LET lastCharLen == RuneWidth(word[Len(word)])
    IN  IF StringWidth(word) + lastCharLen >= width
        THEN IF Len(st.lines[st.row + 1]) > 0
             THEN [lines  |-> Append(st.lines, word),
                   word   |-> <<>>,
                   row    |-> st.row + 1,
                   spaces |-> 0]
             ELSE [lines  |-> [st.lines EXCEPT ![st.row + 1] = @ \o word],
                   word   |-> <<>>,
                   row    |-> st.row,
                   spaces |-> 0]
        ELSE [st EXCEPT !.word = word]

\* the else branch: a word that fills the width is flushed to a line of its
\* own (hard split)
WrapWordBranch(st, word, width) ==
    LET lastCharLen == RuneWidth(word[Len(word)])
    IN  IF StringWidth(word) + lastCharLen > width
        THEN IF Len(st.lines[st.row + 1]) > 0
             THEN [lines  |-> Append(st.lines, word),
                   word   |-> <<>>,
                   row    |-> st.row + 1,
                   spaces |-> 0]
             ELSE [lines  |-> [st.lines EXCEPT ![st.row + 1] = @ \o word],
                   word   |-> <<>>,
                   row    |-> st.row,
                   spaces |-> 0]
        ELSE [st EXCEPT !.word = word]

\* one iteration of "for _, r := range runes"
WrapStep(st, r, width) ==
    LET spaces == IF IsSpace(r) THEN st.spaces + 1 ELSE st.spaces
        word   == IF IsSpace(r) THEN st.word ELSE Append(st.word, r)
    IN  IF spaces > 0
        THEN WrapSpaceBranch(st, word, spaces, width)
        ELSE WrapWordBranch(st, word, width)

RECURSIVE WrapLoop(_, _, _, _)
WrapLoop(runes, i, st, width) ==
    IF i > Len(runes) THEN st
    ELSE WrapLoop(runes, i + 1, WrapStep(st, runes[i], width), width)

\* WrapFlush without the "spaces++" before the final append
WrapFlushNoPad(st, width) ==
    IF StringWidth(st.lines[st.row + 1]) + StringWidth(st.word) + st.spaces
         >= width
    THEN Append(st.lines, st.word \o repeatSpaces(st.spaces))
    ELSE [st.lines EXCEPT ![st.row + 1] =
                       @ \o st.word \o repeatSpaces(st.spaces)]

\* WrapFlush that always opens a new line
WrapFlushNewLine(st, width) ==
    Append(st.lines, st.word \o repeatSpaces(st.spaces + 1))

\* WrapFlush that opens a new line only when the width is exceeded
WrapFlushStrict(st, width) ==
    IF StringWidth(st.lines[st.row + 1]) + StringWidth(st.word) + st.spaces
         > width
    THEN Append(st.lines, st.word \o repeatSpaces(st.spaces + 1))
    ELSE [st.lines EXCEPT ![st.row + 1] =
                       @ \o st.word \o repeatSpaces(st.spaces + 1)]

\* the flush after the loop, with the extra trailing space
WrapFlush(st, width) ==
    IF StringWidth(st.lines[st.row + 1]) + StringWidth(st.word) + st.spaces
         >= width
    THEN Append(st.lines, st.word \o repeatSpaces(st.spaces + 1))
    ELSE [st.lines EXCEPT ![st.row + 1] =
                       @ \o st.word \o repeatSpaces(st.spaces + 1)]

wrap(runes, width) ==
    WrapFlush(WrapLoop(runes, 1,
                       [lines |-> << <<>> >>, word |-> <<>>,
                        row |-> 0, spaces |-> 0],
                       width),
              width)


(***************************************************************************)
(* The text area.  A model value m is the record of the fields of Model    *)
(* that the editing core reads and writes:                                 *)
(*   value  [][]rune        row, col  the cursor                           *)
(*   lco    lastCharOffset                                                 *)
(* plus two outcome flags: panic (a slice or index expression was out of   *)
(* range, the Go runtime aborts the handler) and hung (a loop of the       *)
(* handler repeats a state without reaching its exit, so it never returns).*)
(* Slice bounds are checked against len, which is stricter than Go's cap.  *)
(***************************************************************************)
minHeight == 1
maxLines == 10000

Panic(m) == [m EXCEPT !.panic = TRUE]
Hang(m) == [m EXCEPT !.hung = TRUE]
Aborted(m) == m.panic \/ m.hung

RowOK(m) == m.row >= 0 /\ m.row < Len(m.value)
InRange(s, i) == i >= 0 /\ i < Len(s)
SliceOK(s, lo, hi) == 0 <= lo /\ lo <= hi /\ hi <= Len(s)

\* m.value[m.row]
Cur(m) == m.value[m.row + 1]
\* m.value[m.row][i]
At(m, i) == m.value[m.row + 1][i + 1]

\* SetCursor without the clamp
SetCursorNoClamp(m, c) ==
    IF ~RowOK(m) THEN Panic(m)
    ELSE [m EXCEPT !.col = c, !.lco = 0]

\* SetCursor
SetCursor(m, c) ==
    IF ~RowOK(m) THEN Panic(m)
    ELSE [m EXCEPT !.col = clamp(c, 0, Len(Cur(m))), !.lco = 0]

CursorStart(m) == SetCursor(m, 0)

CursorEnd(m) == IF ~RowOK(m) THEN Panic(m) ELSE SetCursor(m, Len(Cur(m)))

\* Reset (the viewport is not part of the editing core)
Reset(m) ==
    SetCursor([m EXCEPT !.value = << <<>> >>, !.col = 0, !.row = 0], 0)

\* characterRight
characterRight(m) ==
    IF ~RowOK(m) THEN Panic(m)
    ELSE IF m.col < Len(Cur(m)) THEN SetCursor(m, m.col + 1)
    ELSE IF m.row < Len(m.value) - 1
         THEN CursorStart([m EXCEPT !.row = m.row + 1])
         ELSE m

\* characterLeft
characterLeft(m, insideLine) ==
    IF m.col = 0 /\ m.row # 0
    THEN LET m1 == CursorEnd([m EXCEPT !.row = m.row - 1])
         IN  IF Aborted(m1) \/ ~insideLine THEN m1
             ELSE IF m1.col > 0 THEN SetCursor(m1, m1.col - 1) ELSE m1
    ELSE IF m.col > 0 THEN SetCursor(m, m.col - 1) ELSE m

\* wordLeft, first loop: "for { characterLeft(true); if ... break }".  The
\* loop is deterministic, so an iteration that leaves the state as it was
\* without reaching the break repeats forever.
RECURSIVE wordLeftSkip(_)
wordLeftSkip(m) ==
    LET m1 == characterLeft(m, TRUE)
    IN  IF Aborted(m1) THEN m1
        ELSE IF ~RowOK(m1) THEN Panic(m1)
        ELSE IF m1.col < Len(Cur(m1)) /\ ~IsSpace(At(m1, m1.col)) THEN m1
        ELSE IF m1 = m THEN Hang(m1)
        ELSE wordLeftSkip(m1)

\* wordLeft, second loop: "for m.col > 0 { ... }"
RECURSIVE wordLeftWord(_)
wordLeftWord(m) ==
    IF Aborted(m) \/ m.col <= 0 THEN m
    ELSE IF ~InRange(Cur(m), m.col - 1) THEN Panic(m)
    ELSE IF IsSpace(At(m, m.col - 1)) THEN m
    ELSE wordLeftWord(SetCursor(m, m.col - 1))

wordLeft(m) == wordLeftWord(wordLeftSkip(m))

\* the rune written by the callback of uppercaseRight / lowercaseRight /
\* capitalizeRight (unicode.ToUpper, ToLower, ToTitle); wordRight writes none
CaseOf(mode, charIdx, r) ==
    IF mode = "upper" THEN (IF r = "a" THEN "A" ELSE r)
    ELSE IF mode = "lower" THEN (IF r = "A" THEN "a" ELSE r)
    ELSE IF mode = "title" /\ charIdx = 0 THEN (IF r = "a" THEN "A" ELSE r)
    ELSE r

\* doWordRight, first loop: skip white space forward
RECURSIVE doWordRightSkip(_)
doWordRightSkip(m) ==
    IF Aborted(m) THEN m
    ELSE IF ~RowOK(m) THEN Panic(m)
    ELSE IF m.col >= Len(Cur(m)) \/ IsSpace(At(m, m.col))
    THEN IF m.row = Len(m.value) - 1 /\ m.col = Len(Cur(m)) THEN m
         ELSE LET m1 == characterRight(m)
              IN  IF m1 = m THEN Hang(m) ELSE doWordRightSkip(m1)
    ELSE m

\* doWordRight, second loop: walk over the word, applying the callback
RECURSIVE doWordRightWord(_, _, _)
doWordRightWord(m, mode, charIdx) ==
    IF Aborted(m) THEN m
    ELSE IF ~RowOK(m) THEN Panic(m)
    ELSE IF m.col < Len(Cur(m))
    THEN IF IsSpace(At(m, m.col)) THEN m
         ELSE LET m1 == [m EXCEPT !.value[m.row + 1][m.col + 1] =
                                        CaseOf(mode, charIdx, @)]
              IN  doWordRightWord(SetCursor(m1, m1.col + 1), mode, charIdx + 1)
    ELSE m

doWordRight(m, mode) == doWordRightWord(doWordRightSkip(m), mode, 0)

wordRight(m) == doWordRight(m, "none")
uppercaseRight(m) == doWordRight(m, "upper")
lowercaseRight(m) == doWordRight(m, "lower")
capitalizeRight(m) == doWordRight(m, "title")

\* moveToBegin / moveToEnd
moveToBegin(m) == SetCursor([m EXCEPT !.row = 0], 0)

moveToEnd(m) ==
    LET m1 == [m EXCEPT !.row = Len(m.value) - 1]
    IN  IF ~RowOK(m1) THEN Panic(m1) ELSE SetCursor(m1, Len(Cur(m1)))


\* deleteBeforeCursor
deleteBeforeCursor(m) ==
    IF ~RowOK(m) \/ ~SliceOK(Cur(m), m.col, Len(Cur(m))) THEN Panic(m)
    ELSE SetCursor([m EXCEPT !.value[m.row + 1] = SliceFrom(@, m.col)], 0)

\* deleteAfterCursor
deleteAfterCursor(m) ==
    IF ~RowOK(m) \/ ~SliceOK(Cur(m), 0, m.col) THEN Panic(m)
    ELSE LET m1 == [m EXCEPT !.value[m.row + 1] = Slice(@, 0, m.col)]
         IN  SetCursor(m1, Len(Cur(m1)))

\* transposeLeft without the step back from the end of the line
transposeLeftNoStepBack(m) ==
    IF ~RowOK(m) THEN Panic(m)
    ELSE IF m.col = 0 \/ Len(Cur(m)) < 2 THEN m
    ELSE IF ~InRange(Cur(m), m.col - 1) \/ ~InRange(Cur(m), m.col)
    THEN Panic(m)
    ELSE LET m2 == [m EXCEPT !.value[m.row + 1][m.col] = At(m, m.col),
                             !.value[m.row + 1][m.col + 1] = At(m, m.col - 1)]
         IN  IF m2.col < Len(Cur(m2)) THEN SetCursor(m2, m2.col + 1) ELSE m2

\* transposeLeft
transposeLeft(m) ==
    IF ~RowOK(m) THEN Panic(m)
    ELSE IF m.col = 0 \/ Len(Cur(m)) < 2 THEN m
    ELSE LET m1 == IF m.col >= Len(Cur(m)) THEN SetCursor(m, m.col - 1) ELSE m
         IN  IF ~InRange(Cur(m1), m1.col - 1) \/ ~InRange(Cur(m1), m1.col)
             THEN Panic(m1)
             ELSE LET m2 == [m1 EXCEPT
                               !.value[m1.row + 1][m1.col] = At(m1, m1.col),
                               !.value[m1.row + 1][m1.col + 1] =
                                   At(m1, m1.col - 1)]
                  IN  IF m2.col < Len(Cur(m2)) THEN SetCursor(m2, m2.col + 1)
                      ELSE m2

\* deleteWordLeft, first loop: skip the white space before the cursor
RECURSIVE deleteWordLeftSkip(_)
deleteWordLeftSkip(m) ==
    IF Aborted(m) THEN m
    ELSE IF ~InRange(Cur(m), m.col) THEN Panic(m)
    ELSE IF IsSpace(At(m, m.col))
    THEN IF m.col <= 0 THEN m ELSE deleteWordLeftSkip(SetCursor(m, m.col - 1))
    ELSE m

\* deleteWordLeft, second loop: walk to the start of the word
RECURSIVE deleteWordLeftWord(_)
deleteWordLeftWord(m) ==
    IF Aborted(m) \/ m.col <= 0 THEN m
    ELSE IF ~InRange(Cur(m), m.col) THEN Panic(m)
    ELSE IF ~IsSpace(At(m, m.col))
    THEN deleteWordLeftWord(SetCursor(m, m.col - 1))
    ELSE SetCursor(m, m.col + 1)

\* deleteWordLeft
deleteWordLeft(m) ==
    IF ~RowOK(m) THEN Panic(m)
    ELSE IF m.col = 0 \/ Len(Cur(m)) = 0 THEN m
    ELSE LET oldCol == m.col
             m1 == deleteWordLeftWord(
                       deleteWordLeftSkip(SetCursor(m, m.col - 1)))
         IN  IF Aborted(m1) THEN m1
             ELSE IF oldCol > Len(Cur(m1))
             THEN IF ~SliceOK(Cur(m1), 0, m1.col) THEN Panic(m1)
                  ELSE [m1 EXCEPT !.value[m1.row + 1] = Slice(@, 0, m1.col)]
             ELSE IF ~SliceOK(Cur(m1), 0, m1.col)
                     \/ ~SliceOK(Cur(m1), oldCol, Len(Cur(m1)))
             THEN Panic(m1)
             ELSE [m1 EXCEPT !.value[m1.row + 1] =
                                 Slice(@, 0, m1.col) \o SliceFrom(@, oldCol)]

\* deleteWordRight, both loops: skip white space, then the word
RECURSIVE deleteWordRightSkip(_)
deleteWordRightSkip(m) ==
    IF Aborted(m) THEN m
    ELSE IF m.col < Len(Cur(m)) /\ IsSpace(At(m, m.col))
    THEN deleteWordRightSkip(SetCursor(m, m.col + 1))
    ELSE m

RECURSIVE deleteWordRightWord(_)
deleteWordRightWord(m) ==
    IF Aborted(m) THEN m
    ELSE IF m.col < Len(Cur(m)) /\ ~IsSpace(At(m, m.col))
    THEN deleteWordRightWord(SetCursor(m, m.col + 1))
    ELSE m

\* deleteWordRight
deleteWordRight(m) ==
    IF ~RowOK(m) THEN Panic(m)
    ELSE IF m.col >= Len(Cur(m)) \/ Len(Cur(m)) = 0 THEN m
    ELSE LET oldCol == m.col
             m1 == deleteWordRightWord(deleteWordRightSkip(m))
         IN  IF Aborted(m1) THEN m1
             ELSE IF m1.col > Len(Cur(m1))
             THEN IF ~SliceOK(Cur(m1), 0, oldCol) THEN Panic(m1)
                  ELSE SetCursor([m1 EXCEPT !.value[m1.row + 1] =
                                                Slice(@, 0, oldCol)], oldCol)
             ELSE IF ~SliceOK(Cur(m1), 0, oldCol)
                     \/ ~SliceOK(Cur(m1), m1.col, Len(Cur(m1)))
             THEN Panic(m1)
             ELSE SetCursor([m1 EXCEPT !.value[m1.row + 1] =
                                 Slice(@, 0, oldCol) \o SliceFrom(@, m1.col)],
                            oldCol)

\* the sequence s without its element at 0-based index i
RemoveAt(s, i) == SubSeq(s, 1, i) \o SubSeq(s, i + 2, Len(s))

\* mergeLineBelow without the test for the last row: the last line is
\* dropped even when there is no line below to merge
mergeLineBelowNoGuard(m, row) ==
    IF row < 0 THEN Panic(m)
    ELSE IF row >= Len(m.value) - 1
    THEN [m EXCEPT !.value = SubSeq(@, 1, Len(@) - 1)]
    ELSE [m EXCEPT !.value =
             RemoveAt([m.value EXCEPT ![row + 1] = @ \o m.value[row + 2]],
                      row + 1)]

\* mergeLineBelow
mergeLineBelow(m, row) ==
    IF row >= Len(m.value) - 1 THEN m
    ELSE IF row < 0 THEN Panic(m)
    ELSE [m EXCEPT !.value =
             RemoveAt([m.value EXCEPT ![row + 1] = @ \o m.value[row + 2]],
                      row + 1)]

\* mergeLineAbove that leaves the column where it is
mergeLineAboveKeepsCol(m, row) ==
    IF row <= 0 THEN m
    ELSE IF row >= Len(m.value) THEN Panic(m)
    ELSE [m EXCEPT !.row = m.row - 1,
                   !.value =
                       RemoveAt([m.value EXCEPT ![row] = @ \o m.value[row + 1]],
                                row)]

\* mergeLineAbove
mergeLineAbove(m, row) ==
    IF row <= 0 THEN m
    ELSE IF row >= Len(m.value) THEN Panic(m)
    ELSE [m EXCEPT !.col = Len(m.value[row]),
                   !.row = m.row - 1,
                   !.value =
                       RemoveAt([m.value EXCEPT ![row] = @ \o m.value[row + 1]],
                                row)]

\* splitLine
splitLine(m, row, col) ==
    IF ~InRange(m.value, row) \/ ~SliceOK(m.value[row + 1], col,
                                          Len(m.value[row + 1]))
    THEN Panic(m)
    ELSE LET head == Slice(m.value[row + 1], 0, col)
             tail == SliceFrom(m.value[row + 1], col)
         IN  [m EXCEPT !.value = SubSeq(m.value, 1, row) \o <<head, tail>>
                                   \o SubSeq(m.value, row + 2, Len(m.value)),
                       !.col = 0,
                       !.row = m.row + 1]


TAB == "\t"
CR == "\r"
\* a control character other than tab and line-break (unicode.IsControl)
FF == "\f"

\* runeutil sanitizer.Sanitize with the text area's defaults: CR and LF
\* become "\n", a tab becomes four spaces, other control characters go
RECURSIVE Sanitize(_)
Sanitize(runes) ==
    IF runes = <<>> THEN <<>>
    ELSE LET r == Head(runes)
             out == IF r = CR \/ r = NL THEN <<NL>>
                    ELSE IF r = TAB THEN <<" ", " ", " ", " ">>
                    ELSE IF r = FF THEN <<>>
                    ELSE <<r>>
         IN  out \o Sanitize(Tail(runes))

\* the cutting loop without the line after the last '\n' when that line is
\* empty
RECURSIVE SplitLinesNoEmptyLast(_, _)
SplitLinesNoEmptyLast(runes, acc) ==
    IF runes = <<>> THEN (IF acc = <<>> THEN <<>> ELSE <<acc>>)
    ELSE IF Head(runes) = NL
    THEN <<acc>> \o SplitLinesNoEmptyLast(Tail(runes), <<>>)
    ELSE SplitLinesNoEmptyLast(Tail(runes), Append(acc, Head(runes)))

\* the loop of insertRunesFromUserInput that cuts the input at each '\n';
\* the part after the last '\n' is always a line of its own
RECURSIVE SplitLines(_, _)
SplitLines(runes, acc) ==
    IF runes = <<>> THEN <<acc>>
    ELSE IF Head(runes) = NL THEN <<acc>> \o SplitLines(Tail(runes), <<>>)
    ELSE SplitLines(Tail(runes), Append(acc, Head(runes)))

\* Length: display width of all lines plus one per line-break
RECURSIVE LengthOf(_)
LengthOf(value) ==
    IF value = <<>> THEN -1
    ELSE StringWidth(Head(value)) + 1 + LengthOf(Tail(value))

\* insertRunesFromUserInput
insertRunesFromUserInput(m, input, charLimit) ==
    LET r0 == Sanitize(input)
        availSpace == charLimit - LengthOf(m.value)
        runes == IF charLimit > 0 /\ availSpace > 0 /\ availSpace < Len(r0)
                 THEN Slice(r0, 0, availSpace) ELSE r0
        l0 == SplitLines(runes, <<>>)
        lines == IF maxLines > 0 /\ Len(m.value) + Len(l0) - 1 > maxLines
                 THEN Slice(l0, 0, max(0, maxLines - Len(m.value) + 1))
                 ELSE l0
    IN  IF charLimit > 0 /\ availSpace <= 0 THEN m
        ELSE IF Len(lines) = 0 THEN m
        ELSE IF ~RowOK(m) \/ ~SliceOK(Cur(m), m.col, Len(Cur(m))) THEN Panic(m)
        ELSE LET tail == SliceFrom(Cur(m), m.col)
                 first == Slice(Cur(m), 0, m.col) \o lines[1]
                 numExtraLines == Len(lines) - 1
                 newRow == m.row + numExtraLines
                 newCol == IF numExtraLines > 0 THEN Len(lines[Len(lines)])
                           ELSE m.col + Len(lines[1])
                 grid == SubSeq(m.value, 1, m.row) \o <<first>>
                           \o SubSeq(lines, 2, Len(lines))
                           \o SubSeq(m.value, m.row + 2, Len(m.value))
             IN  SetCursor([m EXCEPT !.value = [grid EXCEPT ![newRow + 1] =
                                                          @ \o tail],
                                     !.row = newRow,
                                     !.col = newCol],
                           newCol)

\* SetValue
SetValue(m, s, charLimit) == insertRunesFromUserInput(Reset(m), s, charLimit)

\* Value: the lines joined by '\n', no trailing separator
RECURSIVE ValueOf(_)
ValueOf(value) ==
    IF value = <<>> THEN <<>>
    ELSE IF Len(value) = 1 THEN Head(value)
    ELSE Head(value) \o <<NL>> \o ValueOf(Tail(value))

\* memoizedWrap as the text area sees it: the lines of wrap, from the cache
\* or computed.  The cache itself is memoizedWrapOn below; for lines of
\* valid codepoints, the only ones the text-area alphabet holds, its result
\* is that of wrap.
memoizedWrap(runes, width) == wrap(runes, width)

\* the zero LineInfo
NoLineInfo ==
    [CharOffset |-> 0, ColumnOffset |-> 0, Height |-> 0, RowOffset |-> 0,
     StartColumn |-> 0, Width |-> 0, CharWidth |-> 0]

\* the loop of LineInfo with CharOffset counted in code points instead of
\* display columns
RECURSIVE LineInfoLoopByRunes(_, _, _, _)
LineInfoLoopByRunes(grid, i, counter, col) ==
    IF i > Len(grid) THEN NoLineInfo
    ELSE LET line == grid[i]
         IN  IF counter + Len(line) = col /\ i < Len(grid)
             THEN [CharOffset   |-> 0,
                   ColumnOffset |-> 0,
                   Height       |-> Len(grid),
                   RowOffset    |-> i,
                   StartColumn  |-> col,
                   Width        |-> Len(grid[i + 1]),
                   CharWidth    |-> StringWidth(line)]
             ELSE IF counter + Len(line) >= col
             THEN [CharOffset   |-> Len(
                                      Slice(line, 0, max(0, col - counter))),
                   ColumnOffset |-> col - counter,
                   Height       |-> Len(grid),
                   RowOffset    |-> i - 1,
                   StartColumn  |-> counter,
                   Width        |-> Len(line),
                   CharWidth    |-> StringWidth(line)]
             ELSE LineInfoLoopByRunes(grid, i + 1, counter + Len(line), col)

\* the loop of LineInfo over the wrapped lines; i is the 1-based index of
\* the line looked at (the Go index plus one)
RECURSIVE LineInfoLoop(_, _, _, _)
LineInfoLoop(grid, i, counter, col) ==
    IF i > Len(grid) THEN NoLineInfo
    ELSE LET line == grid[i]
         IN  IF counter + Len(line) = col /\ i < Len(grid)
             THEN [CharOffset   |-> 0,
                   ColumnOffset |-> 0,
                   Height       |-> Len(grid),
                   RowOffset    |-> i,
                   StartColumn  |-> col,
                   Width        |-> Len(grid[i + 1]),
                   CharWidth    |-> StringWidth(line)]
             ELSE IF counter + Len(line) >= col
             THEN [CharOffset   |-> StringWidth(
                                      Slice(line, 0, max(0, col - counter))),
                   ColumnOffset |-> col - counter,
                   Height       |-> Len(grid),
                   RowOffset    |-> i - 1,
                   StartColumn  |-> counter,
                   Width        |-> Len(line),
                   CharWidth    |-> StringWidth(line)]
             ELSE LineInfoLoop(grid, i + 1, counter + Len(line), col)

\* LineInfo
LineInfo(m, width) == LineInfoLoop(memoizedWrap(Cur(m), width), 1, 0, m.col)

\* the loop shared by CursorDown and CursorUp that walks right from the
\* start of the target line until the remembered offset is reached
RECURSIVE CursorWalk(_, _, _, _)
CursorWalk(m, offset, charOffset, nli) ==
    IF offset >= charOffset THEN m
    ELSE IF m.row >= Len(m.value) THEN m
    ELSE IF ~RowOK(m) THEN Panic(m)
    ELSE IF m.col >= Len(Cur(m)) \/ offset >= nli.CharWidth - 1 THEN m
    ELSE IF ~InRange(Cur(m), m.col) THEN Panic(m)
    ELSE CursorWalk([m EXCEPT !.col = m.col + 1],
                    offset + RuneWidth(At(m, m.col)), charOffset, nli)

\* the common tail of CursorDown and CursorUp, from "nli := m.LineInfo()"
CursorLand(m, charOffset, width) ==
    IF ~RowOK(m) THEN Panic(m)
    ELSE LET nli == LineInfo(m, width)
             m1 == [m EXCEPT !.col = nli.StartColumn]
         IN  IF nli.Width <= 0 THEN m1
             ELSE CursorWalk(m1, 0, charOffset, nli)

\* CursorDown without the horizontal memory: the target column is the
\* offset of the cursor on the line it leaves
CursorDownNoMemory(m, width) ==
    IF ~RowOK(m) THEN Panic(m)
    ELSE LET li == LineInfo(m, width)
             charOffset == li.CharOffset
             m1 == [m EXCEPT !.lco = charOffset]
             m2 == IF li.RowOffset + 1 >= li.Height
                      /\ m1.row < Len(m1.value) - 1
                   THEN [m1 EXCEPT !.row = m1.row + 1, !.col = 0]
                   ELSE [m1 EXCEPT !.col = min(li.StartColumn + li.Width + 2,
                                               Len(Cur(m1)) - 1)]
         IN  CursorLand(m2, charOffset, width)

\* CursorDown
CursorDown(m, width) ==
    IF ~RowOK(m) THEN Panic(m)
    ELSE LET li == LineInfo(m, width)
             charOffset == max(m.lco, li.CharOffset)
             m1 == [m EXCEPT !.lco = charOffset]
             m2 == IF li.RowOffset + 1 >= li.Height
                      /\ m1.row < Len(m1.value) - 1
                   THEN [m1 EXCEPT !.row = m1.row + 1, !.col = 0]
                   ELSE [m1 EXCEPT !.col = min(li.StartColumn + li.Width + 2,
                                               Len(Cur(m1)) - 1)]
         IN  CursorLand(m2, charOffset, width)

\* CursorUp
CursorUp(m, width) ==
    IF ~RowOK(m) THEN Panic(m)
    ELSE LET li == LineInfo(m, width)
             charOffset == max(m.lco, li.CharOffset)
             m1 == [m EXCEPT !.lco = charOffset]
             m2 == IF li.RowOffset <= 0 /\ m1.row > 0
                   THEN [m1 EXCEPT !.row = m1.row - 1,
                                   !.col = Len(m1.value[m1.row])]
                   ELSE [m1 EXCEPT !.col = li.StartColumn - 2]
         IN  CursorLand(m2, charOffset, width)

\* cursorLineNumber: the visual line the cursor is on, counted over the
\* soft-wrapped lines of the whole buffer
RECURSIVE WrappedLinesBefore(_, _, _)
WrappedLinesBefore(value, row, width) ==
    IF row <= 0 THEN 0
    ELSE Len(memoizedWrap(value[row], width))
           + WrappedLinesBefore(value, row - 1, width)

cursorLineNumber(m, width) ==
    WrappedLinesBefore(m.value, m.row, width) + LineInfo(m, width).RowOffset

\* SetWidth: the width left for the text once the frame of the base style
\* (reservedOuter), the prompt and the line numbers are taken off
SetWidth(w, pw, lineNumbers, reservedOuter, maxWidth) ==
    LET reservedInner == pw + (IF lineNumbers THEN 4 ELSE 0)
        minWidth == reservedInner + reservedOuter + 1
        inputWidth == IF maxWidth > 0 THEN min(max(w, minWidth), maxWidth)
                      ELSE max(w, minWidth)
    IN  inputWidth - reservedOuter - reservedInner


\* "m.col = clamp(m.col, 0, len(m.value[m.row]))" at the head of several
\* branches of Update
ClampCol(m) ==
    IF ~RowOK(m) THEN Panic(m)
    ELSE [m EXCEPT !.col = clamp(m.col, 0, Len(Cur(m)))]

\* Update, case DeleteAfterCursor
UpdateDeleteAfterCursor(m) ==
    LET m1 == ClampCol(m)
    IN  IF Aborted(m1) THEN m1
        ELSE IF m1.col >= Len(Cur(m1)) THEN mergeLineBelow(m1, m1.row)
        ELSE deleteAfterCursor(m1)

\* Update, case DeleteBeforeCursor
UpdateDeleteBeforeCursor(m) ==
    LET m1 == ClampCol(m)
    IN  IF Aborted(m1) THEN m1
        ELSE IF m1.col <= 0 THEN mergeLineAbove(m1, m1.row)
        ELSE deleteBeforeCursor(m1)

\* Update, case DeleteCharacterBackward
UpdateDeleteCharacterBackward(m) ==
    LET m1 == ClampCol(m)
    IN  IF Aborted(m1) THEN m1
        ELSE IF m1.col <= 0 THEN mergeLineAbove(m1, m1.row)
        ELSE IF Len(Cur(m1)) > 0
        THEN IF ~SliceOK(Cur(m1), max(0, m1.col - 1), m1.col) THEN Panic(m1)
             ELSE LET m2 == [m1 EXCEPT !.value[m1.row + 1] =
                                Slice(@, 0, max(0, m1.col - 1))
                                  \o SliceFrom(@, m1.col)]
                  IN  IF m2.col > 0 THEN SetCursor(m2, m2.col - 1) ELSE m2
        ELSE m1

\* Update, case DeleteCharacterForward: the rune under the cursor is removed
\* first, and the test for the end of the line is made on the shortened line
UpdateDeleteCharacterForward(m) ==
    IF ~RowOK(m) THEN Panic(m)
    ELSE LET m1 == IF Len(Cur(m)) > 0 /\ m.col < Len(Cur(m))
                   THEN IF ~SliceOK(Cur(m), 0, m.col) THEN Panic(m)
                        ELSE [m EXCEPT !.value[m.row + 1] =
                                  Slice(@, 0, m.col) \o SliceFrom(@, m.col + 1)]
                   ELSE m
         IN  IF Aborted(m1) THEN m1
             ELSE IF m1.col >= Len(Cur(m1)) THEN mergeLineBelow(m1, m1.row)
             ELSE m1

\* Update, case DeleteWordBackward
UpdateDeleteWordBackward(m) ==
    IF m.col <= 0 THEN mergeLineAbove(m, m.row) ELSE deleteWordLeft(m)

\* Update, case DeleteWordForward
UpdateDeleteWordForward(m) ==
    LET m1 == ClampCol(m)
    IN  IF Aborted(m1) THEN m1
        ELSE IF m1.col >= Len(Cur(m1)) THEN mergeLineBelow(m1, m1.row)
        ELSE deleteWordRight(m1)

\* Update, case InsertNewline
UpdateInsertNewline(m, maxHeight) ==
    IF maxHeight > 0 /\ Len(m.value) >= maxHeight THEN m
    ELSE LET m1 == ClampCol(m)
         IN  IF Aborted(m1) THEN m1 ELSE splitLine(m1, m1.row, m1.col)

\* the key bindings of KeyMap
Keys ==
    {"DeleteAfterCursor", "DeleteBeforeCursor", "DeleteCharacterBackward",
     "DeleteCharacterForward", "DeleteWordBackward", "DeleteWordForward",
     "InsertNewline", "LineEnd", "LineStart", "CharacterForward", "LineNext",
     "WordForward", "Paste", "CharacterBackward", "LinePrevious",
     "WordBackward", "InputBegin", "InputEnd", "LowercaseWordForward",
     "UppercaseWordForward", "CapitalizeWordForward",
     "TransposeCharacterBackward"}

\* Update, the switch over the key bindings (focused text area).  The Paste
\* key only returns the Paste command; its pasteMsg is a later message.
UpdateKey(m, k, width, maxHeight) ==
    CASE k = "DeleteAfterCursor" -> UpdateDeleteAfterCursor(m)
      [] k = "DeleteBeforeCursor" -> UpdateDeleteBeforeCursor(m)
      [] k = "DeleteCharacterBackward" -> UpdateDeleteCharacterBackward(m)
      [] k = "DeleteCharacterForward" -> UpdateDeleteCharacterForward(m)
      [] k = "DeleteWordBackward" -> UpdateDeleteWordBackward(m)
      [] k = "DeleteWordForward" -> UpdateDeleteWordForward(m)
      [] k = "InsertNewline" -> UpdateInsertNewline(m, maxHeight)
      [] k = "LineEnd" -> CursorEnd(m)
      [] k = "LineStart" -> CursorStart(m)
      [] k = "CharacterForward" -> characterRight(m)
      [] k = "LineNext" -> CursorDown(m, width)
      [] k = "WordForward" -> wordRight(m)
      [] k = "Paste" -> m
      [] k = "CharacterBackward" -> characterLeft(m, FALSE)
      [] k = "LinePrevious" -> CursorUp(m, width)
      [] k = "WordBackward" -> wordLeft(m)
      [] k = "InputBegin" -> moveToBegin(m)
      [] k = "InputEnd" -> moveToEnd(m)
      [] k = "LowercaseWordForward" -> lowercaseRight(m)
      [] k = "UppercaseWordForward" -> uppercaseRight(m)
      [] k = "CapitalizeWordForward" -> capitalizeRight(m)
      [] k = "TransposeCharacterBackward" -> transposeLeft(m)


(***************************************************************************)
(* MemoCache.  A cache value c is the record of the fields                 *)
(*   capacity, cache (hashed key -> list element), evictionList (front     *)
(*   first), hashableItems (hashed key -> value).                          *)
(* A list element is the entry record it carries; as an entry's key never  *)
(* changes and the list holds one element per key, the pointer kept in     *)
(* cache is modelled by the key of the element it points to.               *)
(***************************************************************************)
\* HInt.Hash: the SHA-256 digest of the key, an injective tag here
Hash(h) == <<"sha256", h>>

\* the zero value of the value type ("var result T")
ZeroValue == 0

\* an empty map (make(map[string]...))
NoEntries == [x \in {} |-> ZeroValue]

\* NewMemoCache
NewMemoCache(capacity) ==
    [capacity      |-> capacity,
     cache         |-> NoEntries,
     evictionList  |-> <<>>,
     hashableItems |-> NoEntries]

\* Capacity, Size
Capacity(c) == c.capacity
Size(c) == Len(c.evictionList)

\* the set of 1-based positions of the list element with key hk
PosOf(list, hk) == {i \in 1..Len(list) : list[i].key = hk}

\* list.MoveToFront of the element with key hk
MoveToFront(list, hk) ==
    LET i == CHOOSE j \in PosOf(list, hk) : TRUE
    IN  <<list[i]>> \o SubSeq(list, 1, i - 1) \o SubSeq(list, i + 1, Len(list))

\* the function f without the key k (delete(f, k))
MapDelete(f, k) == [x \in (DOMAIN f) \ {k} |-> f[x]]

\* the function f with k mapped to v (f[k] = v)
MapPut(f, k, v) == [x \in (DOMAIN f) \cup {k} |-> IF x = k THEN v ELSE f[x]]

\* Get that, on a miss, marks the least recently used entry as used
GetMissTouchesOldest(c, h) ==
    LET hashedKey == Hash(h)
    IN  IF hashedKey \in DOMAIN c.cache
        THEN LET list == MoveToFront(c.evictionList, c.cache[hashedKey])
             IN  [c     |-> [c EXCEPT !.evictionList = list],
                  value |-> list[1].value,
                  found |-> TRUE]
        ELSE [c     |-> IF c.evictionList = <<>> THEN c
                        ELSE [c EXCEPT !.evictionList =
                                  MoveToFront(@, @[Len(@)].key)],
              value |-> ZeroValue,
              found |-> FALSE]

\* Get: the cache after the call, the value returned and the found flag
Get(c, h) ==
    LET hashedKey == Hash(h)
    IN  IF hashedKey \in DOMAIN c.cache
        THEN LET list == MoveToFront(c.evictionList, c.cache[hashedKey])
             IN  [c     |-> [c EXCEPT !.evictionList = list],
                  value |-> list[1].value,
                  found |-> TRUE]
        ELSE [c |-> c, value |-> ZeroValue, found |-> FALSE]

\* SetExisting that touches the entry but keeps its old value
SetExistingKeepsValue(c, hashedKey, value) ==
    [c EXCEPT !.evictionList = MoveToFront(@, c.cache[hashedKey])]

\* Set, the branch for a key already in the cache
SetExisting(c, hashedKey, value) ==
    LET list == MoveToFront(c.evictionList, c.cache[hashedKey])
    IN  [c EXCEPT !.evictionList = [list EXCEPT ![1].value = value]]

\* Evict taking the front element (the most recently used one)
EvictFront(c) ==
    IF Len(c.evictionList) >= c.capacity /\ Len(c.evictionList) > 0
    THEN LET evictedEntry == c.evictionList[1]
         IN  [c EXCEPT !.evictionList = Tail(@),
                       !.cache = MapDelete(@, evictedEntry.key),
                       !.hashableItems = MapDelete(@, evictedEntry.key)]
    ELSE c

\* Set, the eviction of the back element when the cache is full
Evict(c) ==
    IF Len(c.evictionList) >= c.capacity /\ Len(c.evictionList) > 0
    THEN LET evictedEntry == c.evictionList[Len(c.evictionList)]
         IN  [c EXCEPT !.evictionList = SubSeq(@, 1, Len(@) - 1),
                       !.cache = MapDelete(@, evictedEntry.key),
                       !.hashableItems = MapDelete(@, evictedEntry.key)]
    ELSE c

\* Set, the insertion of the new entry at the front
PushNew(c, hashedKey, value) ==
    [c EXCEPT !.evictionList = <<[key |-> hashedKey, value |-> value]>> \o @,
              !.cache = MapPut(@, hashedKey, hashedKey),
              !.hashableItems = MapPut(@, hashedKey, value)]

\* Set
Set(c, h, value) ==
    LET hashedKey == Hash(h)
    IN  IF hashedKey \in DOMAIN c.cache
        THEN SetExisting(c, hashedKey, value)
        ELSE PushNew(Evict(c), hashedKey, value)


(***************************************************************************)
(* State.                                                                  *)
(***************************************************************************)
VARIABLES
    \* the text area: Model.value, row, col, lastCharOffset, width,
    \* CharLimit, MaxHeight
    value, row, col, lastCharOffset, width, CharLimit, MaxHeight,
    \* a handler of the text area never returned / aborted on an index
    hung, panicked,
    \* the kind of the last message or call the text area handled
    lastOp,
    \* the largest display-column offset the cursor had at the start of a
    \* move of the current run of vertical moves (0 outside a run)
    runMax,
    \* the keys pressed so far in a navigation scenario
    scKeys,
    \* Model.focus: whether the text area takes keyboard input
    focus,
    \* one editing operation applied to a given document: the operation,
    \* the text it was given, and the document and cursor it was applied to
    edOp, edText, edPre,
    \* one call of wrap: its arguments, its result, and whether it was made
    wRunes, wWidth, wLines, wDone,
    \* a MemoCache, and the record of the last call made on it
    mc, mcLast,
    \* the cache as its contract describes it: the value last set for each
    \* key still held, and the keys held from the most to the least
    \* recently touched
    mcLive, mcOrder,
    \* threads calling one MemoCache (the cache is mc): the holder of the
    \* mutex (0 when free), and for each thread its position in the method,
    \* the call it makes with its local variables, the cache as it was when
    \* the thread took the mutex, and what the method returns
    lkMutex, lkPc, lkCall, lkSnap, lkRet,
    \* the wrap cache of a text area (Model.cache), and the last call of
    \* memoizedWrap: its arguments and the lines it returned
    mwCache, mwLast,
    \* what SetWidth reads: Model.Prompt, whether a prompt function is set,
    \* Model.promptWidth, Model.ShowLineNumbers, the horizontal frame size
    \* of the base style, and the field Model.MaxWidth
    Prompt, promptFunc, promptWidth, ShowLineNumbers, baseFrame,
    fieldMaxWidth,
    \* a timer: Model.Timeout, running and tag, the TickMsg whose tea.Tick
    \* is pending (each with the time it is due), the StartStopMsg on their
    \* way to Update, the time elapsed, and the kind of the last message
    \* Update was given
    Timeout, running, tag, tmTicks, tmMsgs, tmClock, tmLast,
    \* a paginator: Model.Page, PerPage and TotalPages, and the last call made
    \* on it
    Page, PerPage, TotalPages, pgLast,
    \* the viewport: Model.xOffset, longestLineWidth, horizontalStep, Width,
    \* YOffset, Height, the display widths of Model.lines, and the last call
    xOffset, longestLineWidth, horizontalStep, vpWidth, YOffset, vpHeight, vpLines, vpLast,
    \* the cursors of a program (cursor.Model by cursor), the commands BlinkCmd
    \* returned, the BlinkMsg in flight, and the last Update of a cursor
    cursors, cuCmds, cuMsgs, cuLast,
    \* the list: Model.items, filteredItems, filterState, the value of
    \* FilterInput, cursor, the enabled bindings of KeyMap, the
    \* FilterMatchesMsg in flight, and the last call or message
    liItems, filteredItems, filterState, filterValue, liCursor, liKeyMap, liMsgs, liLast

taVars == <<value, row, col, lastCharOffset, width, CharLimit, MaxHeight,
            hung, panicked, lastOp, runMax, scKeys, focus, edOp, edText, edPre>>
wrVars == <<wRunes, wWidth, wLines, wDone>>
mcVars == <<mc, mcLast, mcLive, mcOrder>>
lkVars == <<lkMutex, lkPc, lkCall, lkSnap, lkRet>>
mwVars == <<mwCache, mwLast>>
swVars == <<Prompt, promptFunc, promptWidth, ShowLineNumbers, baseFrame,
            fieldMaxWidth>>
tmVars == <<Timeout, running, tag, tmTicks, tmMsgs, tmClock, tmLast>>
pgVars == <<Page, PerPage, TotalPages, pgLast>>
vpVars == <<xOffset, longestLineWidth, horizontalStep, vpWidth, YOffset,
            vpHeight, vpLines, vpLast>>
cuVars == <<cursors, cuCmds, cuMsgs, cuLast>>
liVars == <<liItems, filteredItems, filterState, filterValue, liCursor,
            liKeyMap, liMsgs, liLast>>
vars == <<taVars, wrVars, mcVars, lkVars, mwVars, swVars, tmVars, pgVars,
          vpVars, cuVars, liVars>>

\* all sequences over S of length lo..hi
SeqsOf(S, lo, hi) == UNION {[1..n -> S] : n \in lo..hi}

\* the record of a call on the cache: the operation, its key, the value
\* passed or returned, the found flag, the hashed keys the call removed,
\* and, as of the moment of the call: whether the key was held, whether the
\* cache was at capacity, and the least recently touched key (0 when
\* no key was held)
NoCall ==
    [op |-> "NewMemoCache", key |-> 0, value |-> ZeroValue, found |-> FALSE,
     removed |-> {}, wasHeld |-> FALSE, wasFull |-> FALSE, oldest |-> 0]

\* the part of the state a specification does not use
IdlePaginator ==
    /\ Page = 0 /\ PerPage = 1 /\ TotalPages = 1 /\ pgLast = "none"
IdleViewport ==
    /\ xOffset = 0 /\ longestLineWidth = 0 /\ horizontalStep = 0
    /\ vpWidth = 0 /\ YOffset = 0 /\ vpHeight = 0 /\ vpLines = <<>>
    /\ vpLast = "none"
IdleCursor ==
    /\ cursors = <<>> /\ cuCmds = <<>> /\ cuMsgs = {} /\ cuLast = <<>>
IdleList ==
    /\ liItems = <<>> /\ filteredItems = <<>> /\ filterState = "Unfiltered"
    /\ filterValue = <<>> /\ liCursor = 0 /\ liKeyMap = {} /\ liMsgs = {}
    /\ liLast = "none"
IdleEdit == edOp = "none" /\ edText = <<>> /\ edPre = <<>>
IdleTextArea ==
    /\ value = << <<>> >> /\ row = 0 /\ col = 0 /\ lastCharOffset = 0
    /\ width = 1 /\ CharLimit = 0 /\ MaxHeight = 0
    /\ hung = FALSE /\ panicked = FALSE /\ lastOp = "none"
    /\ runMax = 0 /\ scKeys = <<>> /\ focus = FALSE
    /\ IdleEdit
IdleWrap == wRunes = <<>> /\ wWidth = 1 /\ wLines = <<>> /\ wDone = FALSE
IdleCache ==
    /\ mc = NewMemoCache(1) /\ mcLast = NoCall
    /\ mcLive = NoEntries /\ mcOrder = <<>>
IdleLock ==
    /\ lkMutex = 0 /\ lkPc = <<>> /\ lkCall = <<>>
    /\ lkSnap = <<>> /\ lkRet = <<>>
IdleMemo == mwCache = NewMemoCache(1) /\ mwLast = <<>>
IdleWidth ==
    /\ Prompt = <<>> /\ promptFunc = FALSE /\ promptWidth = 0
    /\ ShowLineNumbers = FALSE /\ baseFrame = 0 /\ fieldMaxWidth = 0
IdleTimer ==
    /\ Timeout = 0 /\ running = FALSE /\ tag = 0 /\ tmTicks = <<>>
    /\ tmMsgs = <<>> /\ tmClock = 0 /\ tmLast = "none"

(***************************************************************************)
(* The text area as a state machine: a focused text area created by New    *)
(* and given a width, then driven by messages and calls.                   *)
(***************************************************************************)
defaultCharLimit == 0
defaultMaxHeight == 99

\* the model value of the current state
M == [value |-> value, row |-> row, col |-> col, lco |-> lastCharOffset,
      panic |-> FALSE, hung |-> FALSE]

\* runes of key messages, and runes of pasted or programmatically set text
TypedRunes == {"a", " ", "W"}
\* pasted texts: single runes, line-breaks at either end and in a row,
\* and the runes the sanitizer rewrites (tab, CR) or drops (FF)
Inputs ==
    {<<"a">>, <<" ">>, <<"W">>, <<NL>>, <<TAB>>, <<"a", NL>>, <<NL, "a">>,
     <<NL, NL>>, <<"a", FF, " ">>, <<"W", CR, "a">>}
\* texts given to SetValue
SetInputs == {<<>>, <<"a", " ", "W">>, <<"a", NL>>, <<NL, " ", NL>>, <<TAB>>}

\* New() followed by SetWidth: a text area of any width with the default
\* limits, or the narrowest one with a character limit or a maximum height
\* set by the host program
TaInit ==
    /\ value = << <<>> >>
    /\ row = 0
    /\ col = 0
    /\ lastCharOffset = 0
    /\ \/ /\ width \in 1..MaxWidth
          /\ CharLimit = defaultCharLimit
          /\ MaxHeight = defaultMaxHeight
       \/ /\ width = 1
          /\ CharLimit = SmallCharLimit
          /\ MaxHeight = defaultMaxHeight
       \/ /\ width = 1
          /\ CharLimit = defaultCharLimit
          /\ MaxHeight = SmallMaxHeight
    /\ hung = FALSE
    /\ panicked = FALSE
    /\ lastOp = "New"
    /\ runMax = 0
    /\ scKeys = <<>>
    /\ focus = TRUE
    /\ IdleEdit

\* the handler returned m1 (or did not return): the text area after it
Outcome(m1, op) ==
    /\ ~hung /\ ~panicked
    /\ lastOp' = op
    /\ runMax' = IF Aborted(m1) THEN runMax
                 ELSE IF op # "vertical" THEN 0
                 ELSE max(IF lastOp = "vertical" THEN runMax ELSE 0,
                          LineInfo(M, width).CharOffset)
    /\ hung' = m1.hung
    /\ panicked' = m1.panic
    /\ IF Aborted(m1)
       THEN UNCHANGED <<value, row, col, lastCharOffset, swVars, tmVars, pgVars, vpVars, cuVars, liVars>>
       ELSE /\ value' = m1.value
            /\ row' = m1.row
            /\ col' = m1.col
            /\ lastCharOffset' = m1.lco
    /\ UNCHANGED <<width, CharLimit, MaxHeight, focus, edOp, edText, edPre,
                   wrVars, mcVars, lkVars, mwVars, swVars, tmVars, pgVars, vpVars, cuVars, liVars>>

\* a message or call of the editing machine, kept within MaxDoc
Handled(m1, op) ==
    /\ LengthOf(m1.value) <= MaxDoc
    /\ Outcome(m1, op)
    /\ UNCHANGED scKeys

\* the kind of operation a key binding stands for
KindOf(k) ==
    IF k \in {"LineNext", "LinePrevious"} THEN "vertical"
    ELSE IF k \in {"CharacterForward", "CharacterBackward", "WordForward",
                   "WordBackward", "LineStart", "LineEnd", "InputBegin",
                   "InputEnd"} THEN "horizontal"
    ELSE IF k \in {"DeleteAfterCursor", "DeleteBeforeCursor",
                   "DeleteCharacterBackward", "DeleteCharacterForward",
                   "DeleteWordBackward", "DeleteWordForward"} THEN "delete"
    ELSE IF k = "InsertNewline" THEN "newline"
    ELSE IF k = "Paste" THEN "paste"
    ELSE "edit"

\* Update(tea.KeyMsg) matching the key binding k
KeyMsg(k) == Handled(UpdateKey(M, k, width, MaxHeight), KindOf(k))

\* Update(tea.KeyMsg) matching no binding: the runes are inserted
RunesMsg(r) == Handled(insertRunesFromUserInput(M, <<r>>, CharLimit), "insert")

\* Update(pasteMsg)
PasteMsg(t) == Handled(insertRunesFromUserInput(M, t, CharLimit), "insert")

\* the calls SetCursor, Reset, SetValue of the host program
SetCursorCall(c) == Handled(SetCursor(M, c), "call")
ResetCall == Handled(Reset(M), "call")
SetValueCall(t) == Handled(SetValue(M, t, CharLimit), "call")

TaNext ==
    \/ \E k \in Keys : KeyMsg(k)
    \/ \E r \in TypedRunes : RunesMsg(r)
    \/ \E t \in Inputs : PasteMsg(t)
    \/ \E c \in -1..(MaxDoc + 1) : SetCursorCall(c)
    \/ ResetCall
    \/ \E t \in SetInputs : SetValueCall(t)

Init ==
    TaInit /\ IdleWrap /\ IdleCache /\ IdleLock /\ IdleMemo /\ IdleWidth
        /\ IdleTimer
        /\ IdlePaginator
        /\ IdleViewport
        /\ IdleCursor
        /\ IdleList
Next == TaNext
Spec == Init /\ [][Next]_vars


(***************************************************************************)
(* Vertical navigation over a given buffer: the text areas of the tests    *)
(* TestVerticalNavigationShouldRememberPositionWhileTraversing and         *)
(* TestVerticalNavigationKeepsCursorHorizontalPosition (newTextArea with   *)
(* the prompt "> ", SetWidth, SetValue), then driven by at most MaxKeys    *)
(* cursor keys.                                                            *)
(***************************************************************************)
defaultMaxWidth == 500

\* the two double-width glyphs of the second test
Ni == "U+4F60"
Hao == "U+597D"

Hello == <<"H", "e", "l", "l", "o">>
World == <<"W", "o", "r", "l", "d">>
LongLine == <<"T", "h", "i", "s", " ", "i", "s", " ", "a", " ", "l", "o",
              "n", "g", " ", "l", "i", "n", "e", ".">>
NiHaoNiHao == <<Ni, Hao, Ni, Hao>>

\* strings.Join(lines, "\n")
RECURSIVE JoinLines(_)
JoinLines(lines) ==
    IF Len(lines) = 0 THEN <<>>
    ELSE IF Len(lines) = 1 THEN lines[1]
    ELSE lines[1] \o <<NL>> \o JoinLines(Tail(lines))

RememberLines == <<Hello, World, LongLine>>
KeepLines == <<NiHaoNiHao, Hello>>

\* New(): one empty line, the cursor at its start
NewModel == [value |-> << <<>> >>, row |-> 0, col |-> 0, lco |-> 0,
             panic |-> FALSE, hung |-> FALSE]

\* the text area of a test after SetWidth(w) and SetValue(lines joined)
NavStart(m1, w) ==
    /\ value = m1.value
    /\ row = m1.row
    /\ col = m1.col
    /\ lastCharOffset = m1.lco
    /\ width = SetWidth(w, StringWidth(<<">", " ">>), TRUE, 0, defaultMaxWidth)
    /\ CharLimit = defaultCharLimit
    /\ MaxHeight = defaultMaxHeight
    /\ hung = FALSE
    /\ panicked = FALSE
    /\ lastOp = "SetValue"
    /\ runMax = 0
    /\ scKeys = <<>>
    /\ focus = TRUE
    /\ IdleEdit

NavInit ==
    \/ NavStart(SetValue(NewModel, JoinLines(RememberLines), defaultCharLimit),
                40)
    \/ NavStart([SetValue(NewModel, JoinLines(KeepLines), defaultCharLimit)
                    EXCEPT !.row = 0, !.col = 2], 20)

NavKeys == {"LinePrevious", "LineNext", "CharacterBackward",
            "CharacterForward"}

\* Update(tea.KeyMsg) of a cursor key
NavKey(k) ==
    /\ Len(scKeys) < MaxKeys
    /\ Outcome(UpdateKey(M, k, width, MaxHeight), KindOf(k))
    /\ scKeys' = Append(scKeys, k)

InitNav ==
    NavInit /\ IdleWrap /\ IdleCache /\ IdleLock /\ IdleMemo /\ IdleWidth
        /\ IdleTimer
        /\ IdlePaginator
        /\ IdleViewport
        /\ IdleCursor
        /\ IdleList
NextNav == \E k \in NavKeys : NavKey(k)
SpecNav == InitNav /\ [][NextNav]_vars

(***************************************************************************)
(* One editing operation on a given document: InsertString, or splitLine   *)
(* followed by mergeLineAbove, applied to a document and a cursor position *)
(* drawn from bounded sets.  edPre keeps the document and the cursor the   *)
(* operation started from.                                                 *)
(***************************************************************************)
EdRunes == {"a", "W"}
EdLines == SeqsOf(EdRunes, 0, MaxEdLine)
EdDocs == SeqsOf(EdLines, 1, MaxEdLines)

EdInit ==
    /\ value \in EdDocs
    /\ row \in 0..(Len(value) - 1)
    /\ col \in 0..Len(value[row + 1])
    /\ lastCharOffset = 0
    /\ width = 1
    /\ CharLimit \in {defaultCharLimit, SmallCharLimit}
    /\ MaxHeight = defaultMaxHeight
    /\ hung = FALSE
    /\ panicked = FALSE
    /\ lastOp = "SetValue"
    /\ runMax = 0
    /\ scKeys = <<>>
    /\ focus = TRUE
    /\ IdleEdit

\* the operation op, given the text t, made m1 of the text area
EdApply(m1, op, t) ==
    /\ ~hung /\ ~panicked
    /\ edOp' = op
    /\ edText' = t
    /\ edPre' = IF edOp = "none"
                THEN [value |-> value, row |-> row, col |-> col]
                ELSE edPre
    /\ lastOp' = op
    /\ hung' = m1.hung
    /\ panicked' = m1.panic
    /\ IF Aborted(m1)
       THEN UNCHANGED <<value, row, col, lastCharOffset, swVars, tmVars, pgVars, vpVars, cuVars, liVars>>
       ELSE /\ value' = m1.value
            /\ row' = m1.row
            /\ col' = m1.col
            /\ lastCharOffset' = m1.lco
    /\ UNCHANGED <<width, CharLimit, MaxHeight, focus, runMax, scKeys, wrVars,
                   mcVars, lkVars, mwVars, swVars, tmVars, pgVars, vpVars, cuVars, liVars>>

\* InsertString(t)
InsertStringCall(t) ==
    /\ edOp = "none"
    /\ EdApply(insertRunesFromUserInput(M, t, CharLimit), "insert", t)

\* splitLine(m.row, m.col), as the InsertNewline key calls it
SplitLineCall ==
    /\ edOp = "none"
    /\ EdApply(splitLine(M, row, col), "split", <<>>)

\* mergeLineAbove(m.row), as the Backspace key calls it at column 0
MergeLineAboveCall ==
    /\ edOp = "split"
    /\ EdApply(mergeLineAbove(M, row), "merged", <<>>)

InitEdit ==
    EdInit /\ IdleWrap /\ IdleCache /\ IdleLock /\ IdleMemo /\ IdleWidth
        /\ IdleTimer
        /\ IdlePaginator
        /\ IdleViewport
        /\ IdleCursor
        /\ IdleList
NextEdit ==
    \/ \E t \in Inputs : InsertStringCall(t)
    \/ SplitLineCall
    \/ MergeLineAboveCall
SpecEdit == InitEdit /\ [][NextEdit]_vars

(***************************************************************************)
(* wrap as a state machine: one call on arguments drawn from bounded sets. *)
(***************************************************************************)
WrapRunes == {"a", "W", " ", "_"}

WrInit ==
    /\ wRunes \in SeqsOf(WrapRunes, 0, MaxWrapLen)
    /\ wWidth \in 1..MaxWrapWidth
    /\ wLines = <<>>
    /\ wDone = FALSE

\* lines := wrap(runes, width)
WrapCall ==
    /\ ~wDone
    /\ wLines' = wrap(wRunes, wWidth)
    /\ wDone' = TRUE
    /\ UNCHANGED <<wRunes, wWidth, taVars, mcVars, lkVars, mwVars, swVars, tmVars, pgVars, vpVars, cuVars, liVars>>

InitWrap ==
    WrInit /\ IdleTextArea /\ IdleCache /\ IdleLock /\ IdleMemo /\ IdleWidth
        /\ IdleTimer
        /\ IdlePaginator
        /\ IdleViewport
        /\ IdleCursor
        /\ IdleList
NextWrap == WrapCall
SpecWrap == InitWrap /\ [][NextWrap]_vars

(***************************************************************************)
(* A MemoCache as a state machine: NewMemoCache, then Get and Set calls.   *)
(* mcLive and mcOrder follow the contract, not the code: a Set records the *)
(* value, a Get hit or a Set touches the key, and a key that the call      *)
(* removed from the cache is forgotten.                                    *)
(***************************************************************************)
CacheKeys == 1..NumKeys
CacheVals == 1..NumVals

\* the hashed keys held by the recency list
HeldKeys(c) == {c.evictionList[i].key : i \in 1..Len(c.evictionList)}

\* the sequence s without the elements in S
RECURSIVE Without(_, _)
Without(s, S) ==
    IF s = <<>> THEN <<>>
    ELSE IF Head(s) \in S THEN Without(Tail(s), S)
    ELSE <<Head(s)>> \o Without(Tail(s), S)

\* k becomes the most recently touched key
Touch(order, k) == <<k>> \o Without(order, {k})

\* the keys whose hash is in the set R
Unhashed(R) == {k \in CacheKeys : Hash(k) \in R}

\* the record of a call made in the current state
CallRecord(op, k, v, found, after) ==
    [op      |-> op,
     key     |-> k,
     value   |-> v,
     found   |-> found,
     removed |-> HeldKeys(mc) \ HeldKeys(after),
     wasHeld |-> k \in DOMAIN mcLive,
     wasFull |-> Size(mc) >= Capacity(mc),
     oldest  |-> IF mcOrder = <<>> THEN 0 ELSE mcOrder[Len(mcOrder)]]

McInit ==
    /\ \E capacity \in -1..MaxCap : mc = NewMemoCache(capacity)
    /\ mcLast = NoCall
    /\ mcLive = NoEntries
    /\ mcOrder = <<>>

\* v, ok := mc.Get(k)
GetCall(k) ==
    LET r == Get(mc, k)
    IN  /\ mc' = r.c
        /\ mcLast' = CallRecord("Get", k, r.value, r.found, r.c)
        /\ mcLive' = mcLive
        /\ mcOrder' = IF k \in DOMAIN mcLive THEN Touch(mcOrder, k) ELSE mcOrder
        /\ UNCHANGED <<taVars, wrVars, lkVars, mwVars, swVars, tmVars, pgVars, vpVars, cuVars, liVars>>

\* mc.Set(k, v)
SetCall(k, v) ==
    LET after == Set(mc, k, v)
        gone == Unhashed(HeldKeys(mc) \ HeldKeys(after))
    IN  /\ mc' = after
        /\ mcLast' = CallRecord("Set", k, v, FALSE, after)
        /\ mcLive' = [x \in ((DOMAIN mcLive) \ gone) \cup {k} |->
                         IF x = k THEN v ELSE mcLive[x]]
        /\ mcOrder' = Touch(Without(mcOrder, gone), k)
        /\ UNCHANGED <<taVars, wrVars, lkVars, mwVars, swVars, tmVars, pgVars, vpVars, cuVars, liVars>>

InitCache ==
    McInit /\ IdleTextArea /\ IdleWrap /\ IdleLock /\ IdleMemo /\ IdleWidth
        /\ IdleTimer
        /\ IdlePaginator
        /\ IdleViewport
        /\ IdleCursor
        /\ IdleList
NextCache ==
    \/ \E k \in CacheKeys : GetCall(k)
    \/ \E k \in CacheKeys, v \in CacheVals : SetCall(k, v)
SpecCache == InitCache /\ [][NextCache]_vars

(***************************************************************************)
(* One MemoCache called by several threads.  Every method starts with      *)
(* m.mutex.Lock() and "defer m.mutex.Unlock()"; between the two a thread   *)
(* advances one statement at a time, and the scheduler may run any thread  *)
(* that is not blocked.  The element pointer a method holds in a local     *)
(* variable is the key of the element, as in the cache map.                *)
(***************************************************************************)
Threads == 1..NumThreads
LockKeys == 1..NumLockKeys
LockVals == 1..NumLockVals

\* the local variables of a thread outside a method, and its return values
NoLocal ==
    [op |-> "none", key |-> 0, value |-> ZeroValue, element |-> <<>>]
NoRet == [value |-> ZeroValue, found |-> FALSE, size |-> 0]

\* a mutex that lets every caller in
CanLockAlways(t) == TRUE

\* m.mutex.Lock() returns only when no thread holds the mutex
CanLock(t) == lkMutex = 0

\* list.MoveToFront(e); a list ignores an element it does not hold
ListMoveToFront(list, hk) ==
    IF PosOf(list, hk) = {} THEN list ELSE MoveToFront(list, hk)

\* the value field of the entry of element hk
EntryValue(list, hk) ==
    IF PosOf(list, hk) = {} THEN ZeroValue
    ELSE list[CHOOSE j \in PosOf(list, hk) : TRUE].value

\* the list with the value field of the entry of element hk set to v
EntryWrite(list, hk, v) ==
    [i \in 1..Len(list) |->
        IF list[i].key = hk THEN [list[i] EXCEPT !.value = v] ELSE list[i]]

\* the thread t moves to the statement at label, with new local variables
Goto(t, label, local) ==
    /\ lkPc' = [lkPc EXCEPT ![t] = label]
    /\ lkCall' = [lkCall EXCEPT ![t] = local]

LkInit ==
    /\ \E capacity \in 1..MaxLockCap : mc = NewMemoCache(capacity)
    /\ mcLast = NoCall /\ mcLive = NoEntries /\ mcOrder = <<>>
    /\ lkMutex = 0
    /\ lkPc = [t \in Threads |-> "idle"]
    /\ lkCall = [t \in Threads |-> NoLocal]
    /\ lkSnap = [t \in Threads |-> NewMemoCache(mc.capacity)]
    /\ lkRet = [t \in Threads |-> NoRet]

\* m.mutex.Lock() at the head of Get, Set or Size
Lock(t, op, k, v) ==
    /\ lkPc[t] = "idle"
    /\ CanLock(t)
    /\ lkMutex' = t
    /\ Goto(t, IF op = "Get" THEN "get_lookup"
               ELSE IF op = "Set" THEN "set_lookup" ELSE "size_read",
            [op |-> op, key |-> k, value |-> v, element |-> <<>>])
    /\ lkSnap' = [lkSnap EXCEPT ![t] = mc]
    /\ lkRet' = [lkRet EXCEPT ![t] = NoRet]
    /\ UNCHANGED <<mc, mcLast, mcLive, mcOrder, taVars, wrVars, mwVars, swVars, tmVars, pgVars, vpVars, cuVars, liVars>>

\* a statement of thread t at label that leaves the cache as it is
Local(t, label) ==
    /\ lkPc[t] = label
    /\ UNCHANGED <<mc, mcLast, mcLive, mcOrder, lkMutex, lkSnap, taVars,
                   wrVars, mwVars, swVars, tmVars, pgVars, vpVars, cuVars, liVars>>

\* a statement of thread t at label that takes the cache to c
Store(t, label, c) ==
    /\ lkPc[t] = label
    /\ mc' = c
    /\ UNCHANGED <<mcLast, mcLive, mcOrder, lkMutex, lkSnap, lkRet, taVars,
                   wrVars, mwVars, swVars, tmVars, pgVars, vpVars, cuVars, liVars>>

\* Get: "if element, found := m.cache[hashedKey]; found"
GetLookup(t) ==
    LET hashedKey == Hash(lkCall[t].key)
    IN  /\ Local(t, "get_lookup")
        /\ IF hashedKey \in DOMAIN mc.cache
           THEN /\ Goto(t, "get_move",
                        [lkCall[t] EXCEPT !.element = mc.cache[hashedKey]])
                /\ UNCHANGED lkRet
           ELSE /\ Goto(t, "unlock", lkCall[t])
                /\ lkRet' = [lkRet EXCEPT ![t] = NoRet]

\* Get: MoveToFront(element) and "return element.Value.(*entry[T]).value,
\* true"
GetMove(t) ==
    LET list == ListMoveToFront(mc.evictionList, lkCall[t].element)
    IN  /\ lkPc[t] = "get_move"
        /\ mc' = [mc EXCEPT !.evictionList = list]
        /\ lkRet' = [lkRet EXCEPT ![t] =
                        [value |-> EntryValue(list, lkCall[t].element),
                         found |-> TRUE, size |-> 0]]
        /\ Goto(t, "unlock", lkCall[t])
        /\ UNCHANGED <<mcLast, mcLive, mcOrder, lkMutex, lkSnap, taVars,
                       wrVars, mwVars, swVars, tmVars, pgVars, vpVars, cuVars, liVars>>

\* Set: "if element, found := m.cache[hashedKey]; found"
SetLookup(t) ==
    LET hashedKey == Hash(lkCall[t].key)
    IN  /\ Local(t, "set_lookup")
        /\ UNCHANGED lkRet
        /\ IF hashedKey \in DOMAIN mc.cache
           THEN Goto(t, "set_move",
                     [lkCall[t] EXCEPT !.element = mc.cache[hashedKey]])
           ELSE Goto(t, "set_full", lkCall[t])

\* Set: m.evictionList.MoveToFront(element)
SetMove(t) ==
    /\ Store(t, "set_move",
             [mc EXCEPT !.evictionList =
                            ListMoveToFront(@, lkCall[t].element)])
    /\ Goto(t, "set_write", lkCall[t])

\* Set: element.Value.(*entry[T]).value = value; return
SetWrite(t) ==
    /\ Store(t, "set_write",
             [mc EXCEPT !.evictionList =
                            EntryWrite(@, lkCall[t].element, lkCall[t].value)])
    /\ Goto(t, "unlock", lkCall[t])

\* Set: "if m.evictionList.Len() >= m.capacity" and "toEvict != nil"
SetFull(t) ==
    /\ Local(t, "set_full")
    /\ UNCHANGED lkRet
    /\ IF Len(mc.evictionList) >= mc.capacity /\ Len(mc.evictionList) > 0
       THEN Goto(t, "evict_list",
                 [lkCall[t] EXCEPT !.element =
                      mc.evictionList[Len(mc.evictionList)].key])
       ELSE Goto(t, "push_list", lkCall[t])

\* Set: evictedEntry := m.evictionList.Remove(toEvict)
EvictList(t) ==
    /\ Store(t, "evict_list",
             [mc EXCEPT !.evictionList =
                            SelectSeq(@, LAMBDA e : e.key # lkCall[t].element)])
    /\ Goto(t, "evict_cache", lkCall[t])

\* Set: delete(m.cache, evictedEntry.key)
EvictCache(t) ==
    /\ Store(t, "evict_cache",
             [mc EXCEPT !.cache = MapDelete(@, lkCall[t].element)])
    /\ Goto(t, "evict_items", lkCall[t])

\* Set: delete(m.hashableItems, evictedEntry.key)
EvictItems(t) ==
    /\ Store(t, "evict_items",
             [mc EXCEPT !.hashableItems = MapDelete(@, lkCall[t].element)])
    /\ Goto(t, "push_list", lkCall[t])

\* Set: element := m.evictionList.PushFront(newEntry)
PushList(t) ==
    LET hashedKey == Hash(lkCall[t].key)
    IN  /\ Store(t, "push_list",
                 [mc EXCEPT !.evictionList =
                     <<[key |-> hashedKey, value |-> lkCall[t].value]>> \o @])
        /\ Goto(t, "push_cache", [lkCall[t] EXCEPT !.element = hashedKey])

\* Set: m.cache[hashedKey] = element
PushCache(t) ==
    /\ Store(t, "push_cache",
             [mc EXCEPT !.cache =
                            MapPut(@, Hash(lkCall[t].key), lkCall[t].element)])
    /\ Goto(t, "push_items", lkCall[t])

\* Set: m.hashableItems[hashedKey] = value
PushItems(t) ==
    /\ Store(t, "push_items",
             [mc EXCEPT !.hashableItems =
                            MapPut(@, Hash(lkCall[t].key), lkCall[t].value)])
    /\ Goto(t, "unlock", lkCall[t])

\* Size: return m.evictionList.Len()
SizeRead(t) ==
    /\ Local(t, "size_read")
    /\ lkRet' = [lkRet EXCEPT ![t] = [NoRet EXCEPT !.size =
                                                     Len(mc.evictionList)]]
    /\ Goto(t, "unlock", lkCall[t])

\* the deferred m.mutex.Unlock(); the method has returned
Unlock(t) ==
    /\ lkPc[t] = "unlock"
    /\ lkMutex' = 0
    /\ Goto(t, "idle", NoLocal)
    /\ lkSnap' = [lkSnap EXCEPT ![t] = NewMemoCache(mc.capacity)]
    /\ lkRet' = [lkRet EXCEPT ![t] = NoRet]
    /\ UNCHANGED <<mc, mcLast, mcLive, mcOrder, taVars, wrVars, mwVars, swVars, tmVars, pgVars, vpVars, cuVars, liVars>>

InitLock ==
    LkInit /\ IdleTextArea /\ IdleWrap /\ IdleMemo /\ IdleWidth /\ IdleTimer
        /\ IdlePaginator
        /\ IdleViewport
        /\ IdleCursor
        /\ IdleList
NextLock ==
    \/ \E t \in Threads, k \in LockKeys : Lock(t, "Get", k, ZeroValue)
    \/ \E t \in Threads, k \in LockKeys, v \in LockVals : Lock(t, "Set", k, v)
    \/ \E t \in Threads : Lock(t, "Size", 0, ZeroValue)
    \/ \E t \in Threads : GetLookup(t)
    \/ \E t \in Threads : GetMove(t)
    \/ \E t \in Threads : SetLookup(t)
    \/ \E t \in Threads : SetMove(t)
    \/ \E t \in Threads : SetWrite(t)
    \/ \E t \in Threads : SetFull(t)
    \/ \E t \in Threads : EvictList(t)
    \/ \E t \in Threads : EvictCache(t)
    \/ \E t \in Threads : EvictItems(t)
    \/ \E t \in Threads : PushList(t)
    \/ \E t \in Threads : PushCache(t)
    \/ \E t \in Threads : PushItems(t)
    \/ \E t \in Threads : SizeRead(t)
    \/ \E t \in Threads : Unlock(t)
SpecLock == InitLock /\ [][NextLock]_vars


(***************************************************************************)
(* The wrap cache of a text area: memoizedWrap looks the line up under the *)
(* key line{runes, width}, whose Hash is the SHA-256 digest of             *)
(* fmt.Sprintf("%s:%d", string(runes), width).  A Go string is modelled as  *)
(* the sequence of the characters it encodes.  Two more codepoints:        *)
(*   "D800", "DC00"  surrogate code points: runes a []rune can hold (for    *)
(*                   example through InsertRune) but that are not valid     *)
(*                   UTF-8, so string() encodes each of them as U+FFFD;     *)
(*                   their display width is taken as 1, that of U+FFFD      *)
(***************************************************************************)
RuneError == "FFFD"

\* string(r) for one rune
RuneToString(r) == IF r \in {"D800", "DC00"} THEN RuneError ELSE r

\* string(runes)
StringOf(runes) == [i \in 1..Len(runes) |-> RuneToString(runes[i])]

\* the decimal digits of n >= 0 (the verb %d)
RECURSIVE Digits(_)
Digits(n) ==
    LET d == <<"0", "1", "2", "3", "4", "5", "6", "7", "8", "9">>[(n % 10) + 1]
    IN  IF n < 10 THEN <<d>> ELSE Digits(n \div 10) \o <<d>>

\* the string line.Hash digests; Hash applies the digest to it
lineKey(runes, wd) == StringOf(runes) \o <<":">> \o Digits(wd)


\* memoizedWrap on the cache c: the cache after the call and the lines
\* returned
memoizedWrapOn(c, runes, wd) ==
    LET input == lineKey(runes, wd)
        got == Get(c, input)
    IN  IF got.found THEN [c |-> got.c, v |-> got.value]
        ELSE LET v == wrap(runes, wd)
             IN  [c |-> Set(got.c, input, v), v |-> v]

\* line contents and widths memoizedWrap is called with: words, spaces,
\* the characters of the key format, surrogates
MemoLines ==
    {<<>>, <<"a">>, <<"a", " ", "a">>, <<"a", ":", "1">>, <<"D800">>,
     <<"DC00">>, <<"a", "D800">>}
MemoWidths == {1, 2, 11}

MwInit ==
    /\ \E capacity \in 1..MaxMemoCap : mwCache = NewMemoCache(capacity)
    /\ mwLast = <<>>

\* lines := m.memoizedWrap(runes, width)
MemoizedWrapCall(runes, wd) ==
    LET r == memoizedWrapOn(mwCache, runes, wd)
    IN  /\ mwCache' = r.c
        /\ mwLast' = [runes |-> runes, width |-> wd, lines |-> r.v]
        /\ UNCHANGED <<taVars, wrVars, mcVars, lkVars, swVars, tmVars, pgVars, vpVars, cuVars, liVars>>

\* Update with a MaxHeight > 0 that differs from the capacity of the cache:
\* the cache is replaced by a new, empty one
RecreateCache(maxHeight) ==
    /\ maxHeight > 0 /\ maxHeight # Capacity(mwCache)
    /\ mwCache' = NewMemoCache(maxHeight)
    /\ UNCHANGED <<mwLast, taVars, wrVars, mcVars, lkVars, swVars, tmVars, pgVars, vpVars, cuVars, liVars>>

InitMemo ==
    MwInit /\ IdleTextArea /\ IdleWrap /\ IdleCache /\ IdleLock /\ IdleWidth
        /\ IdleTimer
        /\ IdlePaginator
        /\ IdleViewport
        /\ IdleCursor
        /\ IdleList
NextMemo ==
    \/ \E runes \in MemoLines, w \in MemoWidths : MemoizedWrapCall(runes, w)
    \/ \E maxHeight \in 1..MaxMemoCap : RecreateCache(maxHeight)
SpecMemo == InitMemo /\ [][NextMemo]_vars

(***************************************************************************)
(* memoizedWrap called by several execution contexts on one cache          *)
(* (SpecShared).  Get and Set are critical sections of the cache's mutex,  *)
(* each taken as one step; between the Get and the Set of one call the     *)
(* other contexts run.  A context keeps in lkCall the arguments of its     *)
(* call and the local v, in lkRet the lines the call returned.             *)
(***************************************************************************)
SharedLines == {<<"a">>, <<"a", " ", "a">>, <<"D800">>, <<"DC00">>}
SharedWidths == {1, 2}
NoWrapCall == [runes |-> <<>>, width |-> 1, v |-> <<>>]

ShInit ==
    /\ \E capacity \in 1..MaxMemoCap : mwCache = NewMemoCache(capacity)
    /\ mwLast = <<>>
    /\ lkMutex = 0
    /\ lkPc = [t \in Threads |-> "idle"]
    /\ lkCall = [t \in Threads |-> NoWrapCall]
    /\ lkSnap = <<>>
    /\ lkRet = [t \in Threads |-> <<>>]

ShFrame == UNCHANGED <<mwLast, lkMutex, lkSnap, taVars, wrVars, mcVars,
                       swVars, tmVars, pgVars, vpVars, cuVars, liVars>>

\* context t calls m.memoizedWrap(runes, wd)
SharedCall(t, runes, wd) ==
    /\ lkPc[t] \in {"idle", "done"}
    /\ lkPc' = [lkPc EXCEPT ![t] = "get"]
    /\ lkCall' = [lkCall EXCEPT ![t] = [runes |-> runes, width |-> wd,
                                        v |-> <<>>]]
    /\ lkRet' = [lkRet EXCEPT ![t] = <<>>]
    /\ UNCHANGED mwCache
    /\ ShFrame

\* "if v, ok := m.cache.Get(input); ok { return v }", then
\* "v := wrap(runes, width)"
SharedGet(t) ==
    /\ lkPc[t] = "get"
    /\ LET got == Get(mwCache, lineKey(lkCall[t].runes, lkCall[t].width))
       IN  /\ mwCache' = got.c
           /\ IF got.found
              THEN /\ lkPc' = [lkPc EXCEPT ![t] = "done"]
                   /\ lkRet' = [lkRet EXCEPT ![t] = got.value]
                   /\ UNCHANGED lkCall
              ELSE /\ lkPc' = [lkPc EXCEPT ![t] = "set"]
                   /\ lkCall' = [lkCall EXCEPT ![t].v =
                                     wrap(lkCall[t].runes, lkCall[t].width)]
                   /\ UNCHANGED lkRet
    /\ ShFrame

\* "m.cache.Set(input, v)", then "return v"
SharedSet(t) ==
    /\ lkPc[t] = "set"
    /\ mwCache' = Set(mwCache, lineKey(lkCall[t].runes, lkCall[t].width),
                      lkCall[t].v)
    /\ lkPc' = [lkPc EXCEPT ![t] = "done"]
    /\ lkRet' = [lkRet EXCEPT ![t] = lkCall[t].v]
    /\ UNCHANGED lkCall
    /\ ShFrame

InitShared ==
    ShInit /\ IdleTextArea /\ IdleWrap /\ IdleCache /\ IdleWidth /\ IdleTimer
        /\ IdlePaginator
        /\ IdleViewport
        /\ IdleCursor
        /\ IdleList
NextShared ==
    \/ \E t \in Threads, runes \in SharedLines, w \in SharedWidths :
           SharedCall(t, runes, w)
    \/ \E t \in Threads : SharedGet(t)
    \/ \E t \in Threads : SharedSet(t)
SpecShared == InitShared /\ [][NextShared]_vars


(***************************************************************************)
(* Update as a whole on a text area made by New: the focus test, the wrap  *)
(* cache that follows MaxHeight, the handler of the message, and the calls *)
(* of memoizedWrap that cursorLineNumber, LineInfo and repositionView make *)
(* on the cache.  The host program calls Focus and Blur and assigns        *)
(* MaxHeight between two Updates.                                          *)
(***************************************************************************)
\* a focus test that always passes
FocusedAlways(f) == TRUE

\* "if !m.focus" at the head of Update reads Focused()
Focused(f) == f

\* an Update that keeps the cache it has
UpdateCacheKeep(c, maxHeight) == c

\* "if m.MaxHeight > 0 && m.MaxHeight != m.cache.Capacity()": the cache is
\* replaced by a new one of capacity MaxHeight
UpdateCache(c, maxHeight) ==
    IF maxHeight > 0 /\ maxHeight # Capacity(c) THEN NewMemoCache(maxHeight)
    ELSE c

\* the cache after the loop of cursorLineNumber over the first n lines
RECURSIVE CacheRows(_, _, _, _)
CacheRows(c, lines, n, wd) ==
    IF n = 0 THEN c
    ELSE memoizedWrapOn(CacheRows(c, lines, n - 1, wd), lines[n], wd).c

\* the cache after LineInfo
CacheLineInfo(c, m, wd) == memoizedWrapOn(c, Cur(m), wd).c

\* the cache after cursorLineNumber
CacheLineNumber(c, m, wd) ==
    CacheLineInfo(CacheRows(c, m.value, m.row, wd), m, wd)

\* the cache after CursorDown or CursorUp took m to m1: LineInfo on the
\* line left and on the line reached
CacheCursorMove(c, m, m1, wd) == CacheLineInfo(CacheLineInfo(c, m, wd), m1, wd)

\* the values the host program gives MaxHeight: no maximum, a small one,
\* the default
UpHeights == {0, SmallMaxHeight, defaultMaxHeight}

\* the cursor and editing keys of this machine; their handlers return
UpKeys == {"LineNext", "LinePrevious", "InsertNewline",
           "DeleteCharacterBackward", "CharacterBackward"}

\* New(), then SetWidth
UpInit ==
    /\ value = << <<>> >>
    /\ row = 0
    /\ col = 0
    /\ lastCharOffset = 0
    /\ width \in 1..MaxWidth
    /\ CharLimit = defaultCharLimit
    /\ MaxHeight = defaultMaxHeight
    /\ hung = FALSE
    /\ panicked = FALSE
    /\ lastOp = "New"
    /\ runMax = 0
    /\ scKeys = <<>>
    /\ focus = FALSE
    /\ IdleEdit
    /\ mwCache = NewMemoCache(maxLines)
    /\ mwLast = <<>>

\* Update(msg), m1 being what the handler of msg makes of the text area
UpdateCall(m1, vertical) ==
    /\ ~Aborted(m1)
    /\ LengthOf(m1.value) <= MaxDoc
    /\ lastOp' = "Update"
    /\ IF ~Focused(focus)
       THEN UNCHANGED <<value, row, col, lastCharOffset, mwCache, swVars, tmVars, pgVars, vpVars, cuVars, liVars>>
       ELSE LET c1 == CacheLineNumber(mwCache, M, width)
                c2 == UpdateCache(c1, MaxHeight)
                c3 == IF vertical THEN CacheCursorMove(c2, M, m1, width)
                      ELSE c2
                c4 == CacheLineNumber(c3, m1, width)
                c5 == CacheLineNumber(c4, m1, width)
            IN  /\ value' = m1.value
                /\ row' = m1.row
                /\ col' = m1.col
                /\ lastCharOffset' = m1.lco
                /\ mwCache' = c5
    /\ UNCHANGED <<width, CharLimit, MaxHeight, focus, hung, panicked, runMax,
                   scKeys, edOp, edText, edPre, mwLast, wrVars, mcVars, lkVars, swVars, tmVars, pgVars, vpVars, cuVars, liVars>>

UpdateKeyMsg(k) ==
    UpdateCall(UpdateKey(M, k, width, MaxHeight), KindOf(k) = "vertical")
UpdateRunesMsg(r) ==
    UpdateCall(insertRunesFromUserInput(M, <<r>>, CharLimit), FALSE)
UpdatePasteMsg(t) ==
    UpdateCall(insertRunesFromUserInput(M, t, CharLimit), FALSE)

\* Focus() and Blur()
FocusCall ==
    /\ focus' = TRUE
    /\ lastOp' = "Focus"
    /\ UNCHANGED <<value, row, col, lastCharOffset, width, CharLimit, MaxHeight,
                   hung, panicked, runMax, scKeys, edOp, edText, edPre, mwVars,
                   wrVars, mcVars, lkVars, swVars, tmVars, pgVars, vpVars, cuVars, liVars>>
BlurCall ==
    /\ focus' = FALSE
    /\ lastOp' = "Blur"
    /\ UNCHANGED <<value, row, col, lastCharOffset, width, CharLimit, MaxHeight,
                   hung, panicked, runMax, scKeys, edOp, edText, edPre, mwVars,
                   wrVars, mcVars, lkVars, swVars, tmVars, pgVars, vpVars, cuVars, liVars>>

\* the host program assigns the field MaxHeight
SetMaxHeight(h) ==
    /\ MaxHeight' = h
    /\ lastOp' = "MaxHeight"
    /\ UNCHANGED <<value, row, col, lastCharOffset, width, CharLimit, focus,
                   hung, panicked, runMax, scKeys, edOp, edText, edPre, mwVars,
                   wrVars, mcVars, lkVars, swVars, tmVars, pgVars, vpVars, cuVars, liVars>>

InitUpdate == UpInit /\ IdleWrap /\ IdleCache /\ IdleLock /\ IdleWidth /\ IdleTimer
        /\ IdleList
        /\ IdleCursor
        /\ IdleViewport
        /\ IdlePaginator
NextUpdate ==
    \/ \E k \in UpKeys : UpdateKeyMsg(k)
    \/ UpdateRunesMsg("a")
    \/ UpdatePasteMsg(<<"a", NL>>)
    \/ FocusCall
    \/ BlurCall
    \/ \E h \in UpHeights : SetMaxHeight(h)
SpecUpdate == InitUpdate /\ [][NextUpdate]_vars


(***************************************************************************)
(* SetWidth as a state machine (SpecWidth): a text area fresh from New(),  *)
(* whose host assigns Prompt, ShowLineNumbers, MaxWidth and the base       *)
(* style, sets a prompt function, and calls SetWidth.                      *)
(***************************************************************************)
defaultWidth == 40
MaxPrompt == 2
MaxFrame == 2
MaxFieldWidth == 7
MaxSetWidth == 8

\* the prompt of New(): a border glyph of width 1 and a space
defaultPrompt == <<"a", " ">>
Prompts == SeqsOf({"W"}, 0, MaxPrompt) \cup {defaultPrompt}
FieldWidths == (-1..MaxFieldWidth) \cup {defaultMaxWidth}
SetWidths == (-1..MaxSetWidth) \cup {defaultWidth}

\* New(), as far as SetWidth is concerned; its last statement is
\* SetWidth(defaultWidth)
SwInit ==
    /\ value = << <<>> >> /\ row = 0 /\ col = 0 /\ lastCharOffset = 0
    /\ CharLimit = defaultCharLimit /\ MaxHeight = defaultMaxHeight
    /\ hung = FALSE /\ panicked = FALSE /\ lastOp = "New"
    /\ runMax = 0 /\ scKeys = <<>> /\ focus = FALSE
    /\ IdleEdit
    /\ Prompt = defaultPrompt
    /\ promptFunc = FALSE
    /\ promptWidth = StringWidth(defaultPrompt)
    /\ ShowLineNumbers = TRUE
    /\ baseFrame = 0
    /\ fieldMaxWidth = defaultMaxWidth
    /\ width = SetWidth(defaultWidth, StringWidth(defaultPrompt), TRUE, 0,
                        defaultMaxWidth)

\* what a step of SpecWidth leaves alone besides the configuration
SwFrame ==
    UNCHANGED <<value, row, col, lastCharOffset, CharLimit, MaxHeight, hung,
                panicked, runMax, scKeys, focus, edOp, edText, edPre,
                wrVars, mcVars, lkVars, mwVars, tmVars, pgVars, vpVars, cuVars, liVars>>

\* m.SetWidth(w)
SetWidthCall(w) ==
    LET pw == IF promptFunc THEN promptWidth ELSE StringWidth(Prompt)
    IN  /\ promptWidth' = pw
        /\ width' = SetWidth(w, pw, ShowLineNumbers, baseFrame,
                             fieldMaxWidth)
        /\ lastOp' = "SetWidth"
        /\ UNCHANGED <<Prompt, promptFunc, ShowLineNumbers, baseFrame,
                       fieldMaxWidth>>
        /\ SwFrame

\* m.SetPromptFunc(pw, fn)
SetPromptFunc(pw) ==
    /\ promptFunc' = TRUE
    /\ promptWidth' = pw
    /\ lastOp' = "config"
    /\ UNCHANGED <<Prompt, ShowLineNumbers, baseFrame, fieldMaxWidth, width>>
    /\ SwFrame

\* the host program assigns the fields Prompt, ShowLineNumbers and
\* MaxWidth, and a base style with the given horizontal frame size
SetPrompt(p) ==
    /\ Prompt' = p
    /\ lastOp' = "config"
    /\ UNCHANGED <<promptFunc, promptWidth, ShowLineNumbers, baseFrame,
                   fieldMaxWidth, width>>
    /\ SwFrame
SetShowLineNumbers(b) ==
    /\ ShowLineNumbers' = b
    /\ lastOp' = "config"
    /\ UNCHANGED <<Prompt, promptFunc, promptWidth, baseFrame,
                   fieldMaxWidth, width>>
    /\ SwFrame
SetBaseFrame(f) ==
    /\ baseFrame' = f
    /\ lastOp' = "config"
    /\ UNCHANGED <<Prompt, promptFunc, promptWidth, ShowLineNumbers,
                   fieldMaxWidth, width>>
    /\ SwFrame
SetMaxWidth(x) ==
    /\ fieldMaxWidth' = x
    /\ lastOp' = "config"
    /\ UNCHANGED <<Prompt, promptFunc, promptWidth, ShowLineNumbers,
                   baseFrame, width>>
    /\ SwFrame

InitWidth == SwInit /\ IdleWrap /\ IdleCache /\ IdleLock /\ IdleMemo /\ IdleTimer
        /\ IdleList
        /\ IdleCursor
        /\ IdleViewport
        /\ IdlePaginator
NextWidth ==
    \/ \E w \in SetWidths : SetWidthCall(w)
    \/ \E pw \in 0..MaxPrompt : SetPromptFunc(pw)
    \/ \E p \in Prompts : SetPrompt(p)
    \/ \E b \in BOOLEAN : SetShowLineNumbers(b)
    \/ \E f \in 0..MaxFrame : SetBaseFrame(f)
    \/ \E x \in FieldWidths : SetMaxWidth(x)
SpecWidth == InitWidth /\ [][NextWidth]_vars


(***************************************************************************)
(* The timer (SpecTimer): one timer made by NewWithInterval and started by *)
(* Init in a program that calls Start, Stop and Toggle and hands every     *)
(* message to Update.  A command returned to the program runs on its own:  *)
(* a StartStopMsg reaches Update at any later moment, a TickMsg when the   *)
(* Interval of its tea.Tick has elapsed.  Time is counted in units of      *)
(* which an Interval has several, so that calls can fall between ticks.    *)
(***************************************************************************)
Interval == 2
TimerTimeout == 6
MaxClock == 6
MaxTicks == 3
MaxMsgs == 2

\* the id nextID gave the timer (the first one made)
timerId == 1

\* Timedout, Running
Timedout == Timeout <= 0
Running == ~(Timedout \/ ~running)

\* the message of the command m.tick() returned at the present moment
tick == [ID |-> timerId, tag |-> tag, Timeout |-> Timedout,
         due |-> tmClock + Interval]

\* the message of the command m.startStop(v)
startStop(v) == [ID |-> timerId, running |-> v]

\* NewWithInterval(TimerTimeout, Interval), then Init()
TmInit ==
    /\ Timeout = TimerTimeout
    /\ running = TRUE
    /\ tag = 0
    /\ tmClock = 0
    /\ tmTicks = <<[ID |-> timerId, tag |-> 0, Timeout |-> FALSE,
                    due |-> Interval]>>
    /\ tmMsgs = <<>>
    /\ tmLast = "Init"

TmFrame ==
    UNCHANGED <<taVars, wrVars, mcVars, lkVars, mwVars, swVars, pgVars, vpVars, cuVars, liVars>>

\* Start(), Stop(), Toggle(): the command is handed to the program
StartStopCall(v, name) ==
    /\ Len(tmMsgs) < MaxMsgs
    /\ tmMsgs' = Append(tmMsgs, startStop(v))
    /\ tmLast' = name
    /\ UNCHANGED <<Timeout, running, tag, tmTicks, tmClock>>
    /\ TmFrame
Start == StartStopCall(TRUE, "Start")
Stop == StartStopCall(FALSE, "Stop")
Toggle == StartStopCall(~Running, "Toggle")

\* Update, case StartStopMsg, for the i-th message on its way
UpdateStartStopMsg(i) ==
    LET msg == tmMsgs[i]
    IN  /\ Len(tmTicks) < MaxTicks
        /\ tmMsgs' = RemoveAt(tmMsgs, i - 1)
        /\ tmLast' = "StartStopMsg"
        /\ IF msg.ID # 0 /\ msg.ID # timerId
           THEN UNCHANGED <<running, tmTicks>>
           ELSE /\ running' = msg.running
                /\ tmTicks' = Append(tmTicks, tick)
        /\ UNCHANGED <<Timeout, tag, tmClock>>
        /\ TmFrame

\* Update, case TickMsg, for a message msg; rest is what stays pending
UpdateTickMsg(msg, rest) ==
    /\ IF ~Running \/ (msg.ID # 0 /\ msg.ID # timerId)
       THEN /\ tmLast' = "TickMsg ignored"
            /\ UNCHANGED Timeout
            /\ tmTicks' = rest
       ELSE IF msg.tag > 0 /\ msg.tag # tag
       THEN /\ tmLast' = "TickMsg rejected"
            /\ UNCHANGED Timeout
            /\ tmTicks' = rest
       ELSE /\ tmLast' = "TickMsg"
            /\ Timeout' = Timeout - Interval
            /\ tmTicks' = Append(rest, tick)
    /\ UNCHANGED <<running, tag, tmMsgs, tmClock>>
    /\ TmFrame

\* the tea.Tick of the i-th pending TickMsg fires
TickDue(i) ==
    /\ tmTicks[i].due <= tmClock
    /\ UpdateTickMsg(tmTicks[i], RemoveAt(tmTicks, i - 1))

\* the TickMsg of another timer is handed to Update
ForeignTick ==
    /\ tmLast # "TickMsg ignored"
    /\ UpdateTickMsg([ID |-> timerId + 1, tag |-> 0, Timeout |-> FALSE,
                      due |-> tmClock], tmTicks)

\* one unit of time passes; a tea.Tick fires when it is due
Elapse ==
    /\ tmClock < MaxClock
    /\ \A i \in 1..Len(tmTicks) : tmTicks[i].due > tmClock
    /\ tmClock' = tmClock + 1
    /\ tmLast' = "elapse"
    /\ UNCHANGED <<Timeout, running, tag, tmTicks, tmMsgs>>
    /\ TmFrame

InitTimer ==
    TmInit /\ IdleTextArea /\ IdleWrap /\ IdleCache /\ IdleLock /\ IdleMemo
           /\ IdleWidth
        /\ IdlePaginator
        /\ IdleViewport
        /\ IdleCursor
        /\ IdleList
NextTimer ==
    \/ Start
    \/ Stop
    \/ Toggle
    \/ \E i \in 1..Len(tmMsgs) : UpdateStartStopMsg(i)
    \/ \E i \in 1..Len(tmTicks) : TickDue(i)
    \/ ForeignTick
    \/ Elapse
SpecTimer == InitTimer /\ [][NextTimer]_vars


(***************************************************************************)
(* The paginator (SpecPaginator): a paginator made by New with the option  *)
(* WithPerPage, on which the host program calls SetTotalPages, PrevPage    *)
(* and NextPage in any order.                                              *)
(***************************************************************************)
MaxPerPage == 2
MaxItems == 6
MaxPage == 6

\* New(WithPerPage(perPage))
PgInit ==
    /\ Page = 0
    /\ PerPage \in 1..MaxPerPage
    /\ TotalPages = 1
    /\ pgLast = "New"

PgFrame ==
    UNCHANGED <<taVars, wrVars, mcVars, lkVars, mwVars, swVars, tmVars, vpVars, cuVars, liVars>>

\* OnLastPage
OnLastPage == Page = TotalPages - 1

\* SetTotalPages(items)
SetTotalPages(items) ==
    /\ IF items < 1 THEN UNCHANGED TotalPages
       ELSE TotalPages' = (items \div PerPage)
                            + (IF items % PerPage > 0 THEN 1 ELSE 0)
    /\ pgLast' = "SetTotalPages"
    /\ UNCHANGED <<Page, PerPage>>
    /\ PgFrame

\* PrevPage
PrevPage ==
    /\ Page' = IF Page > 0 THEN Page - 1 ELSE Page
    /\ pgLast' = "PrevPage"
    /\ UNCHANGED <<PerPage, TotalPages>>
    /\ PgFrame

\* NextPage
NextPage ==
    /\ Page < MaxPage
    /\ Page' = IF ~OnLastPage THEN Page + 1 ELSE Page
    /\ pgLast' = "NextPage"
    /\ UNCHANGED <<PerPage, TotalPages>>
    /\ PgFrame

InitPaginator ==
    PgInit /\ IdleTextArea /\ IdleWrap /\ IdleCache /\ IdleLock /\ IdleMemo
        /\ IdleWidth /\ IdleTimer
        /\ IdleViewport
        /\ IdleCursor
        /\ IdleList
NextPaginator ==
    \/ \E items \in 0..MaxItems : SetTotalPages(items)
    \/ PrevPage
    \/ NextPage
SpecPaginator == InitPaginator /\ [][NextPaginator]_vars


(***************************************************************************)
(* The viewport as a state machine (SpecViewport): a viewport from         *)
(* New(width, height) whose host sets the content and the horizontal step  *)
(* and scrolls it.  A line of the content is kept as its display width;    *)
(* the style of the viewport has no frame.                                 *)
(***************************************************************************)
MaxVpWidth == 3
MaxVpHeight == 2
MaxLineWidth == 4
MaxVpLines == 2
MaxStep == 2

\* findLongestLineWidth
RECURSIVE findLongestLineWidth(_)
findLongestLineWidth(lines) ==
    IF lines = <<>> THEN 0
    ELSE max(Head(lines), findLongestLineWidth(Tail(lines)))

\* maxYOffset, AtTop, AtBottom
maxYOffset(nlines, height) == max(0, nlines - height)
AtTop(y) == y <= 0
AtBottom(y, nlines, height) == y >= maxYOffset(nlines, height)

\* SetYOffset, GotoBottom
SetYOffset(n, nlines, height) == clamp(n, 0, maxYOffset(nlines, height))
GotoBottom(nlines, height) ==
    SetYOffset(maxYOffset(nlines, height), nlines, height)

\* ScrollDown and ScrollUp: the new YOffset
ScrollDown(y, n, nlines, height) ==
    IF AtBottom(y, nlines, height) \/ n = 0 \/ nlines = 0 THEN y
    ELSE SetYOffset(y + n, nlines, height)
ScrollUp(y, n, nlines, height) ==
    IF AtTop(y) \/ n = 0 \/ nlines = 0 THEN y
    ELSE SetYOffset(y - n, nlines, height)

\* SetContent: the new YOffset once the lines are replaced
SetContentYOffset(y, nlines, height) ==
    IF y > nlines - 1 THEN GotoBottom(nlines, height) ELSE y

\* SetXOffset: the new xOffset
SetXOffset(n, longest, w) == clamp(n, 0, longest - w)

VpContents == SeqsOf(0..MaxLineWidth, 1, MaxVpLines)

\* New(width, height)
VpInit ==
    /\ xOffset = 0
    /\ longestLineWidth = 0
    /\ horizontalStep = 0
    /\ vpWidth \in 0..MaxVpWidth
    /\ YOffset = 0
    /\ vpHeight \in 1..MaxVpHeight
    /\ vpLines = <<>>
    /\ vpLast = "New"

VpFrame ==
    UNCHANGED <<taVars, wrVars, mcVars, lkVars, mwVars, swVars, tmVars, pgVars, cuVars, liVars>>

SetContentCall(lines) ==
    /\ vpLines' = lines
    /\ longestLineWidth' = findLongestLineWidth(lines)
    /\ YOffset' = SetContentYOffset(YOffset, Len(lines), vpHeight)
    /\ vpLast' = "SetContent"
    /\ UNCHANGED <<xOffset, horizontalStep, vpWidth, vpHeight>>
    /\ VpFrame

SetHorizontalStep(n) ==
    /\ horizontalStep' = max(n, 0)
    /\ vpLast' = "SetHorizontalStep"
    /\ UNCHANGED <<xOffset, longestLineWidth, vpWidth, YOffset, vpHeight,
                   vpLines>>
    /\ VpFrame

SetXOffsetCall(n, name) ==
    /\ xOffset' = SetXOffset(n, longestLineWidth, vpWidth)
    /\ vpLast' = name
    /\ UNCHANGED <<longestLineWidth, horizontalStep, vpWidth, YOffset,
                   vpHeight, vpLines>>
    /\ VpFrame

\* ScrollLeft(n) and ScrollRight(n)
ScrollLeft(n) == SetXOffsetCall(xOffset - n, "ScrollLeft")
ScrollRight(n) == SetXOffsetCall(xOffset + n, "ScrollRight")

\* ScrollDown(n) and ScrollUp(n) called by the host
ScrollDownCall(n) ==
    /\ YOffset' = ScrollDown(YOffset, n, Len(vpLines), vpHeight)
    /\ vpLast' = "ScrollDown"
    /\ UNCHANGED <<xOffset, longestLineWidth, horizontalStep, vpWidth,
                   vpHeight, vpLines>>
    /\ VpFrame
ScrollUpCall(n) ==
    /\ YOffset' = ScrollUp(YOffset, n, Len(vpLines), vpHeight)
    /\ vpLast' = "ScrollUp"
    /\ UNCHANGED <<xOffset, longestLineWidth, horizontalStep, vpWidth,
                   vpHeight, vpLines>>
    /\ VpFrame

InitViewport ==
    VpInit /\ IdleTextArea /\ IdleWrap /\ IdleCache /\ IdleLock /\ IdleMemo
        /\ IdleWidth /\ IdleTimer /\ IdlePaginator
        /\ IdleCursor
        /\ IdleList
NextViewport ==
    \/ \E lines \in VpContents : SetContentCall(lines)
    \/ \E n \in -1..MaxStep : SetHorizontalStep(n)
    \/ \E n \in 0..MaxLineWidth : SetXOffsetCall(n, "SetXOffset")
    \/ ScrollLeft(horizontalStep)
    \/ ScrollRight(horizontalStep)
    \/ \E n \in 0..1 : ScrollDownCall(n)
    \/ \E n \in 0..1 : ScrollUpCall(n)
SpecViewport == InitViewport /\ [][NextViewport]_vars


(***************************************************************************)
(* The text area and its viewport (SpecView): a focused text area after    *)
(* New(), SetWidth and SetHeight, whose Update moves the viewport with     *)
(* repositionView and whose View gives the viewport its content.  The      *)
(* cache of wrapped lines is left as it is: for the runes typed here it    *)
(* returns what wrap returns.                                              *)
(***************************************************************************)
ViewKeys == {"InsertNewline", "LineNext", "LinePrevious",
             "DeleteCharacterBackward"}
ViewPastes == {<<NL, NL, NL>>, <<"a", NL>>}

\* repositionView: the new YOffset of the viewport, line being
\* cursorLineNumber()
repositionView(y, line, height, nlines) ==
    LET minimum == y
        maximum == minimum + height - 1
    IN  IF line < minimum THEN ScrollUp(y, minimum - line, nlines, height)
        ELSE IF line > maximum
             THEN ScrollDown(y, line - maximum, nlines, height)
             ELSE y

\* the lines View writes: the wrapped lines of the value, m.height lines
\* of padding, each ended by a line feed, hence one empty line at the end
\* of strings.Split
ViewLines(m, w, height) ==
    LET n == WrappedLinesBefore(m.value, Len(m.value), w) + height
    IN  [i \in 1..(n + 1) |-> IF i <= n THEN w ELSE 0]

\* New(), SetWidth(w), SetHeight(h), Focus()
VwInit ==
    /\ value = << <<>> >>
    /\ row = 0
    /\ col = 0
    /\ lastCharOffset = 0
    /\ width \in 1..MaxWidth
    /\ CharLimit = defaultCharLimit
    /\ MaxHeight = defaultMaxHeight
    /\ hung = FALSE
    /\ panicked = FALSE
    /\ lastOp = "New"
    /\ runMax = 0
    /\ scKeys = <<>>
    /\ focus = TRUE
    /\ IdleEdit
    /\ xOffset = 0
    /\ longestLineWidth = 0
    /\ horizontalStep = 0
    /\ vpWidth = width
    /\ YOffset = 0
    /\ vpHeight \in minHeight..MaxVpHeight
    /\ vpLines = <<>>
    /\ vpLast = "New"

VwFrame ==
    UNCHANGED <<width, CharLimit, MaxHeight, focus, hung, panicked, runMax,
                scKeys, edOp, edText, edPre, xOffset, horizontalStep, vpWidth,
                vpHeight, wrVars, mcVars, lkVars, mwVars, swVars, tmVars,
                pgVars, cuVars, liVars>>

\* Update(msg) of the focused text area, m1 being what the handler of msg
\* makes of it; the viewport is given no key of its own
ViewUpdate(m1) ==
    /\ ~Aborted(m1)
    /\ LengthOf(m1.value) <= MaxDoc
    /\ value' = m1.value
    /\ row' = m1.row
    /\ col' = m1.col
    /\ lastCharOffset' = m1.lco
    /\ lastOp' = "Update"
    /\ YOffset' = repositionView(YOffset, cursorLineNumber(m1, width),
                                 vpHeight, Len(vpLines))
    /\ vpLast' = "repositionView"
    /\ UNCHANGED <<longestLineWidth, vpLines>>
    /\ VwFrame

ViewKeyMsg(k) == ViewUpdate(UpdateKey(M, k, width, MaxHeight))
ViewRunesMsg(r) == ViewUpdate(insertRunesFromUserInput(M, <<r>>, CharLimit))
ViewPasteMsg(t) == ViewUpdate(insertRunesFromUserInput(M, t, CharLimit))

\* View()
ViewCall ==
    LET lines == ViewLines(M, width, vpHeight)
    IN  /\ vpLines' = lines
        /\ longestLineWidth' = findLongestLineWidth(lines)
        /\ YOffset' = SetContentYOffset(YOffset, Len(lines), vpHeight)
        /\ vpLast' = "SetContent"
        /\ lastOp' = "View"
        /\ UNCHANGED <<value, row, col, lastCharOffset>>
        /\ VwFrame

InitView ==
    VwInit /\ IdleWrap /\ IdleCache /\ IdleLock /\ IdleMemo /\ IdleWidth
        /\ IdleTimer /\ IdlePaginator
        /\ IdleCursor
        /\ IdleList
NextView ==
    \/ \E k \in ViewKeys : ViewKeyMsg(k)
    \/ ViewRunesMsg("a")
    \/ \E t \in ViewPastes : ViewPasteMsg(t)
    \/ ViewCall
SpecView == InitView /\ [][NextView]_vars


(***************************************************************************)
(* Blinking cursors (SpecCursor): the cursors a program made with New(),   *)
(* the commands their BlinkCmd returned, run by the runtime of the program *)
(* at any later moment, and the BlinkMsg these commands send, which the    *)
(* program hands to Update of its cursors.  A command is known by its      *)
(* position in cuCmds.                                                     *)
(***************************************************************************)
NumCursors == 2
MaxCmds == 3
Cursors == 1..NumCursors
Modes == {"CursorBlink", "CursorStatic", "CursorHide"}

\* New(): the field id is left at its zero value
New ==
    [id |-> 0, focus |-> FALSE, Blink |-> TRUE, blinkTag |-> 0,
     mode |-> "CursorBlink", cancel |-> 0]

\* m.blinkCtx.cancel(): the context of command s ends as cancelled unless
\* its deadline has passed
Cancel(cmds, s) ==
    IF s # 0 /\ cmds[s].state = "pending"
    THEN [cmds EXCEPT ![s].state = "cancelled"]
    ELSE cmds

\* BlinkCmd on the cursor c whose model is m: the model and the commands
\* it leaves
BlinkCmd(m, cmds, c) ==
    IF m.mode # "CursorBlink" THEN [m |-> m, cmds |-> cmds]
    ELSE [m |-> [m EXCEPT !.cancel = Len(cmds) + 1,
                          !.blinkTag = m.blinkTag + 1],
          cmds |-> Append(Cancel(cmds, m.cancel),
                          [owner |-> c, state |-> "pending",
                           blinkMsg |-> [id |-> m.id,
                                         tag |-> m.blinkTag + 1]])]

\* the command cursor c issued last (0 when it issued none)
RECURSIVE LatestCmd(_, _, _)
LatestCmd(cmds, c, s) ==
    IF s = 0 THEN 0
    ELSE IF cmds[s].owner = c THEN s ELSE LatestCmd(cmds, c, s - 1)

NoUpdate ==
    [cursor |-> 0, toggled |-> FALSE, own |-> FALSE, fromLatest |-> FALSE,
     focus |-> FALSE, blinkMode |-> FALSE]

CuInit ==
    /\ cursors = [c \in Cursors |-> New]
    /\ cuCmds = <<>>
    /\ cuMsgs = {}
    /\ cuLast = NoUpdate

CuFrame ==
    UNCHANGED <<taVars, wrVars, mcVars, lkVars, mwVars, swVars, tmVars,
                pgVars, vpVars, liVars>>

\* the model and the commands after BlinkCmd, stored by the program
Issue(c, r) ==
    /\ Len(r.cmds) <= MaxCmds
    /\ cursors' = [cursors EXCEPT ![c] = r.m]
    /\ cuCmds' = r.cmds

\* Focus()
Focus(c) ==
    LET m1 == [cursors[c] EXCEPT !.focus = TRUE,
                                 !.Blink = (cursors[c].mode = "CursorHide")]
    IN  /\ Issue(c, IF m1.mode = "CursorBlink" /\ m1.focus
                    THEN BlinkCmd(m1, cuCmds, c)
                    ELSE [m |-> m1, cmds |-> cuCmds])
        /\ UNCHANGED <<cuMsgs, cuLast>>
        /\ CuFrame

\* Blur()
Blur(c) ==
    /\ cursors' = [cursors EXCEPT ![c].focus = FALSE, ![c].Blink = TRUE]
    /\ UNCHANGED <<cuCmds, cuMsgs, cuLast>>
    /\ CuFrame

\* SetMode(mode); the command Blink it returns is the initialBlinkMsg below
SetMode(c, mode) ==
    /\ cursors' = [cursors EXCEPT
                     ![c].mode = mode,
                     ![c].Blink = (mode = "CursorHide" \/ ~cursors[c].focus)]
    /\ UNCHANGED <<cuCmds, cuMsgs, cuLast>>
    /\ CuFrame

\* Update(initialBlinkMsg{}), the message of the command Blink
UpdateInitialBlinkMsg(c) ==
    LET m == cursors[c]
    IN  /\ Issue(c, IF m.mode # "CursorBlink" \/ ~m.focus
                    THEN [m |-> m, cmds |-> cuCmds]
                    ELSE BlinkCmd(m, cuCmds, c))
        /\ UNCHANGED <<cuMsgs, cuLast>>
        /\ CuFrame

\* the deadline of the context of command s passes
DeadlineExceeded(s) ==
    /\ cuCmds[s].state = "pending"
    /\ cuCmds' = [cuCmds EXCEPT ![s].state = "expired"]
    /\ UNCHANGED <<cursors, cuMsgs, cuLast>>
    /\ CuFrame

\* the closure BlinkCmd returned runs to its end: it waits for the context
\* and returns blinkMsg after the deadline, blinkCanceled{} after a cancel
RunCmd(s) ==
    /\ cuCmds[s].state \in {"expired", "cancelled"}
    /\ cuCmds' = [cuCmds EXCEPT ![s].state = "done"]
    /\ cuMsgs' = IF cuCmds[s].state = "expired"
                 THEN cuMsgs \cup {[cmd |-> s, to |-> c] : c \in Cursors}
                 ELSE cuMsgs
    /\ UNCHANGED <<cursors, cuLast>>
    /\ CuFrame

\* Update(msg) of cursor c, msg being the BlinkMsg of command s
UpdateBlinkMsg(c, s) ==
    LET m == cursors[c]
        msg == cuCmds[s].blinkMsg
        blinkable == ~(m.mode # "CursorBlink" \/ ~m.focus)
        expected == ~(msg.id # m.id \/ msg.tag # m.blinkTag)
        m1 == [m EXCEPT !.Blink = ~m.Blink]
    IN  /\ [cmd |-> s, to |-> c] \in cuMsgs
        /\ cuMsgs' = cuMsgs \ {[cmd |-> s, to |-> c]}
        /\ IF blinkable /\ expected
           THEN Issue(c, BlinkCmd(m1, cuCmds, c))
           ELSE UNCHANGED <<cursors, cuCmds>>
        /\ cuLast' = [cursor |-> c, toggled |-> blinkable /\ expected,
                      own |-> cuCmds[s].owner = c,
                      fromLatest |-> s = LatestCmd(cuCmds, c, Len(cuCmds)),
                      focus |-> m.focus,
                      blinkMode |-> m.mode = "CursorBlink"]
        /\ CuFrame

InitCursor ==
    CuInit /\ IdleTextArea /\ IdleWrap /\ IdleCache /\ IdleLock /\ IdleMemo
        /\ IdleWidth /\ IdleTimer /\ IdlePaginator /\ IdleViewport
        /\ IdleList
NextCursor ==
    \/ \E c \in Cursors : Focus(c)
    \/ \E c \in Cursors : Blur(c)
    \/ \E c \in Cursors, mode \in Modes : SetMode(c, mode)
    \/ \E c \in Cursors : UpdateInitialBlinkMsg(c)
    \/ \E s \in 1..Len(cuCmds) : DeadlineExceeded(s)
    \/ \E s \in 1..Len(cuCmds) : RunCmd(s)
    \/ \E c \in Cursors, s \in 1..Len(cuCmds) : UpdateBlinkMsg(c, s)
SpecCursor == InitCursor /\ [][NextCursor]_vars


(***************************************************************************)
(* The list (SpecList): a list from New(items, delegate, width, height)    *)
(* with the default key map and a delegate whose Update does nothing,      *)
(* which gets key messages, FilterMatchesMsg and calls of RemoveItem.  An  *)
(* item is its position in the items given to New and its FilterValue; a   *)
(* list l is the record of the fields of Model.  The heights of the views  *)
(* stay as they are, so updatePagination finds the same PerPage each time; *)
(* a filter command is run as soon as it is returned, and only its         *)
(* message is delivered at any later moment.                               *)
(***************************************************************************)
MaxListItems == 3
MaxTerm == 2
MaxFilterMsgs == 1
FilterRunes == {"a", "z"}
ListKeys == {"up", "down", "pgup", "pgdown", "home", "end", "/", "esc",
             "enter", "backspace"} \cup FilterRunes
NavBindings == {"CursorUp", "CursorDown", "GoToStart", "GoToEnd"}
PageBindings == {"PrevPage", "NextPage"}

\* the bindings of DefaultKeyMap a key belongs to, in the order the
\* handlers test them
BindingsOf(k) ==
    CASE k = "up" -> {"CursorUp", "AcceptWhileFiltering"}
      [] k = "down" -> {"CursorDown", "AcceptWhileFiltering"}
      [] k = "pgup" -> {"PrevPage"}
      [] k = "pgdown" -> {"NextPage"}
      [] k = "home" -> {"GoToStart"}
      [] k = "end" -> {"GoToEnd"}
      [] k = "/" -> {"Filter"}
      [] k = "esc" -> {"ClearFilter", "CancelWhileFiltering", "Quit"}
      [] k = "enter" -> {"AcceptWhileFiltering"}
      [] OTHER -> {}

\* key.Matches(msg, binding): the key is one of the binding, which is enabled
KeyMatches(l, k, b) == b \in BindingsOf(k) /\ b \in l.KeyMap

\* term is found in target rune by rune, in order (the fuzzy match of
\* DefaultFilter)
RECURSIVE IsSubseq(_, _)
IsSubseq(term, target) ==
    IF term = <<>> THEN TRUE
    ELSE IF target = <<>> THEN FALSE
    ELSE IF Head(term) = Head(target) THEN IsSubseq(Tail(term), Tail(target))
    ELSE IsSubseq(term, Tail(target))

\* VisibleItems
VisibleItems(l) ==
    IF l.filterState # "Unfiltered"
    THEN [i \in 1..Len(l.filteredItems) |-> l.filteredItems[i].item]
    ELSE l.items

\* Index and GlobalIndex
Index(l) == l.Page * l.PerPage + l.cursor
GlobalIndex(l) ==
    IF l.filteredItems = <<>> \/ Index(l) >= Len(l.filteredItems)
    THEN Index(l)
    ELSE l.filteredItems[Index(l) + 1].index

\* SelectedItem: the item, or nil
nil == [id |-> 0, fv |-> <<>>]
SelectedItem(l) ==
    LET i == Index(l)
        its == VisibleItems(l)
    IN  IF i < 0 \/ Len(its) = 0 \/ Len(its) <= i THEN nil ELSE its[i + 1]

\* of the paginator of the list: ItemsOnPage, SetTotalPages, PrevPage,
\* NextPage
ItemsOnPage(l, totalItems) ==
    IF totalItems < 1 THEN 0
    ELSE min(l.Page * l.PerPage + l.PerPage, totalItems)
           - l.Page * l.PerPage
TotalPagesOf(l, n) ==
    IF n < 1 THEN l.TotalPages
    ELSE (n \div l.PerPage) + (IF n % l.PerPage > 0 THEN 1 ELSE 0)
PagePrev(l) == IF l.Page > 0 THEN [l EXCEPT !.Page = l.Page - 1] ELSE l
PageNext(l) ==
    IF l.Page # l.TotalPages - 1 THEN [l EXCEPT !.Page = l.Page + 1] ELSE l

maxCursorIndex(l) == max(0, ItemsOnPage(l, Len(VisibleItems(l))) - 1)

\* updatePagination
updatePagination(l) ==
    LET index == Index(l)
        n == Len(VisibleItems(l))
        pages == TotalPagesOf(l, IF n < 1 THEN 1 ELSE n)
        page == index \div l.PerPage
    IN  [l EXCEPT !.TotalPages = pages,
                  !.Page = IF page >= pages - 1 THEN max(0, pages - 1)
                           ELSE page,
                  !.cursor = index % l.PerPage]

\* updateKeybindings: the bindings it enables (those of the help and Quit
\* apart)
updateKeybindings(l) ==
    [l EXCEPT !.KeyMap =
        IF l.filterState = "Filtering"
        THEN {"CancelWhileFiltering"}
               \cup (IF l.filterValue # <<>> THEN {"AcceptWhileFiltering"}
                     ELSE {})
        ELSE (IF l.items # <<>> THEN NavBindings \cup {"Filter"} ELSE {})
               \cup (IF l.TotalPages > 1 THEN PageBindings ELSE {})
               \cup (IF l.filterState = "FilterApplied" THEN {"ClearFilter"}
                     ELSE {})
               \cup {"Quit"}]

\* resetFiltering
resetFiltering(l) ==
    IF l.filterState = "Unfiltered" THEN l
    ELSE updateKeybindings(updatePagination(
             [l EXCEPT !.filterState = "Unfiltered", !.filterValue = <<>>,
                       !.filteredItems = <<>>]))

\* itemsAsFilterItems: the field index is not set
itemsAsFilterItems(l) ==
    [i \in 1..Len(l.items) |-> [index |-> 0, item |-> l.items[i]]]

\* the matches of the items whose FilterValue contains the term, with
\* i counting the items already seen
RECURSIVE FilterFrom(_, _, _)
FilterFrom(its, term, i) ==
    IF i >= Len(its) THEN <<>>
    ELSE (IF IsSubseq(term, its[i + 1].fv)
          THEN <<[index |-> i, item |-> its[i + 1]]>> ELSE <<>>)
           \o FilterFrom(its, term, i + 1)

\* the message of the command filterItems(m)
filterItems(l) ==
    IF l.filterValue = <<>> \/ l.filterState = "Unfiltered"
    THEN itemsAsFilterItems(l)
    ELSE FilterFrom(l.items, l.filterValue, 0)

\* CursorUp and CursorDown, InfiniteScrolling being off
ListCursorUp(l) ==
    LET c == l.cursor - 1
    IN  IF c < 0 /\ l.Page = 0 THEN [l EXCEPT !.cursor = 0]
        ELSE IF c >= 0 THEN [l EXCEPT !.cursor = c]
        ELSE LET l1 == PagePrev(l)
             IN  [l1 EXCEPT !.cursor = maxCursorIndex(l1)]
ListCursorDown(l) ==
    LET maxIndex == maxCursorIndex(l)
        c == l.cursor + 1
    IN  IF c <= maxIndex THEN [l EXCEPT !.cursor = c]
        ELSE IF l.Page # l.TotalPages - 1
             THEN [PageNext(l) EXCEPT !.cursor = 0]
             ELSE [l EXCEPT !.cursor = max(0, maxIndex)]

\* GoToStart and GoToEnd
GoToStart(l) == [l EXCEPT !.Page = 0, !.cursor = 0]
GoToEnd(l) ==
    LET l1 == [l EXCEPT !.Page = max(0, l.TotalPages - 1)]
    IN  [l1 EXCEPT !.cursor = maxCursorIndex(l1)]

\* handleBrowsing of a key message; quit is set when it returns tea.Quit
\* before the cursor is clamped
handleBrowsing(l, k) ==
    LET quit == ~KeyMatches(l, k, "ClearFilter") /\ KeyMatches(l, k, "Quit")
        l1 == CASE KeyMatches(l, k, "ClearFilter") -> resetFiltering(l)
                [] KeyMatches(l, k, "CursorUp") -> ListCursorUp(l)
                [] KeyMatches(l, k, "CursorDown") -> ListCursorDown(l)
                [] KeyMatches(l, k, "PrevPage") -> PagePrev(l)
                [] KeyMatches(l, k, "NextPage") -> PageNext(l)
                [] KeyMatches(l, k, "GoToStart") -> GoToStart(l)
                [] KeyMatches(l, k, "GoToEnd") -> GoToEnd(l)
                [] KeyMatches(l, k, "Filter") ->
                     updateKeybindings(
                       [GoToStart([l EXCEPT !.filteredItems =
                                      IF l.filterValue = <<>>
                                      THEN itemsAsFilterItems(l)
                                      ELSE l.filteredItems])
                          EXCEPT !.filterState = "Filtering"])
                [] OTHER -> l
    IN  IF quit THEN l
        ELSE [l1 EXCEPT !.cursor = clamp(l1.cursor, 0, maxCursorIndex(l1))]

\* FilterInput.Update of a key message: the new value of the focused input
FilterInputUpdate(l, k) ==
    IF l.filterState # "Filtering" THEN l.filterValue
    ELSE IF k \in FilterRunes \cup {"/"} THEN Append(l.filterValue, k)
    ELSE IF k = "backspace" /\ l.filterValue # <<>>
         THEN SubSeq(l.filterValue, 1, Len(l.filterValue) - 1)
    ELSE l.filterValue

\* handleFiltering of a key message: the list, and the message of the
\* filter command it returns (sent is FALSE when it returns none)
handleFiltering(l, k) ==
    LET l1 == CASE KeyMatches(l, k, "CancelWhileFiltering") ->
                     LET r == resetFiltering(l)
                     IN  [r EXCEPT !.KeyMap = (r.KeyMap \cup {"Filter"})
                                                 \ {"ClearFilter"}]
                [] KeyMatches(l, k, "AcceptWhileFiltering") ->
                     IF Len(l.items) = 0 THEN l
                     ELSE IF Len(VisibleItems(l)) = 0 THEN resetFiltering(l)
                     ELSE LET a == updateKeybindings(
                                     [l EXCEPT !.filterState = "FilterApplied"])
                          IN  IF a.filterValue = <<>> THEN resetFiltering(a)
                              ELSE a
                [] OTHER -> l
        v == FilterInputUpdate(l1, k)
        filterChanged == v # l1.filterValue
        l2 == [l1 EXCEPT !.filterValue = v]
        l3 == IF filterChanged
              THEN [l2 EXCEPT !.KeyMap =
                      IF v # <<>> THEN l2.KeyMap \cup {"AcceptWhileFiltering"}
                      ELSE l2.KeyMap \ {"AcceptWhileFiltering"}]
              ELSE l2
    IN  [l |-> updatePagination(l3), sent |-> filterChanged,
         msg |-> filterItems(l2)]

\* RemoveItem(index), index >= 0
removeFromSlice(s, index) ==
    IF index >= Len(s) THEN s ELSE RemoveAt(s, index)
RemoveItem(l, index) ==
    LET l1 == [l EXCEPT !.items = removeFromSlice(l.items, index)]
        l2 == IF l1.filterState # "Unfiltered"
              THEN LET f == [l1 EXCEPT !.filteredItems =
                               removeFromSlice(l1.filteredItems, index)]
                   IN  IF Len(f.filteredItems) = 0 THEN resetFiltering(f)
                       ELSE f
              ELSE l1
    IN  updatePagination(l2)

\* the list the program holds
L ==
    [items |-> liItems, filteredItems |-> filteredItems,
     filterState |-> filterState, filterValue |-> filterValue,
     cursor |-> liCursor, KeyMap |-> liKeyMap, Page |-> Page,
     PerPage |-> PerPage, TotalPages |-> TotalPages]

\* New(items, delegate, width, height), before updatePagination and
\* updateKeybindings
NewList(its, perPage) ==
    [items |-> its, filteredItems |-> <<>>, filterState |-> "Unfiltered",
     filterValue |-> <<>>, cursor |-> 0, KeyMap |-> {}, Page |-> 0,
     PerPage |-> perPage, TotalPages |-> 1]

ItemLists ==
    UNION {{[i \in 1..n |-> [id |-> i, fv |-> <<f[i]>>]] :
              f \in [1..n -> FilterRunes]} : n \in 0..MaxListItems}

\* the program stores the list l
StoreList(l) ==
    /\ liItems' = l.items
    /\ filteredItems' = l.filteredItems
    /\ filterState' = l.filterState
    /\ filterValue' = l.filterValue
    /\ liCursor' = l.cursor
    /\ liKeyMap' = l.KeyMap
    /\ Page' = l.Page
    /\ PerPage' = l.PerPage
    /\ TotalPages' = l.TotalPages

LiInit ==
    /\ \E its \in ItemLists, perPage \in 1..MaxPerPage :
         LET l == updateKeybindings(updatePagination(NewList(its, perPage)))
         IN  /\ liItems = l.items
             /\ filteredItems = l.filteredItems
             /\ filterState = l.filterState
             /\ filterValue = l.filterValue
             /\ liCursor = l.cursor
             /\ liKeyMap = l.KeyMap
             /\ Page = l.Page
             /\ PerPage = l.PerPage
             /\ TotalPages = l.TotalPages
    /\ pgLast = "New"
    /\ liMsgs = {}
    /\ liLast = "New"

LiFrame ==
    UNCHANGED <<taVars, wrVars, mcVars, lkVars, mwVars, swVars, tmVars,
                pgLast, vpVars, cuVars>>

\* Update(msg) of a key message
UpdateListKey(k) ==
    /\ IF filterState = "Filtering"
       THEN LET r == handleFiltering(L, k)
            IN  /\ Len(r.l.filterValue) <= MaxTerm
                /\ r.sent => Cardinality(liMsgs \cup {r.msg}) <= MaxFilterMsgs
                /\ StoreList(r.l)
                /\ liMsgs' = IF r.sent THEN liMsgs \cup {r.msg} ELSE liMsgs
       ELSE /\ StoreList(handleBrowsing(L, k))
            /\ UNCHANGED liMsgs
    /\ liLast' = "Update"
    /\ LiFrame

\* Update(msg) of a FilterMatchesMsg
UpdateFilterMatchesMsg(msg) ==
    /\ msg \in liMsgs
    /\ liMsgs' = liMsgs \ {msg}
    /\ filteredItems' = msg
    /\ liLast' = "FilterMatchesMsg"
    /\ UNCHANGED <<liItems, filterState, filterValue, liCursor, liKeyMap,
                   Page, PerPage, TotalPages>>
    /\ LiFrame

\* RemoveItem(index) called by the program
RemoveItemCall(index) ==
    /\ StoreList(RemoveItem(L, index))
    /\ liLast' = "RemoveItem"
    /\ UNCHANGED liMsgs
    /\ LiFrame

InitList ==
    LiInit /\ IdleTextArea /\ IdleWrap /\ IdleCache /\ IdleLock /\ IdleMemo
        /\ IdleWidth /\ IdleTimer /\ IdleViewport /\ IdleCursor
NextList ==
    \/ \E k \in ListKeys : UpdateListKey(k)
    \/ \E msg \in liMsgs : UpdateFilterMatchesMsg(msg)
    \/ \E index \in 0..MaxListItems : RemoveItemCall(index)
SpecList == InitList /\ [][NextList]_vars


(***************************************************************************)
(* Properties of wrap (SpecWrap).                                          *)
(***************************************************************************)
HasSpace(l) == \E i \in 1..Len(l) : IsSpace(l[i])

\* the lines of a wrap result laid end to end
RECURSIVE Concat(_)
Concat(lines) ==
    IF lines = <<>> THEN <<>> ELSE Head(lines) \o Concat(Tail(lines))

\* the number of codepoints before sub-line k
StartOf(lines, k) == Len(Concat(SubSeq(lines, 1, k - 1)))

\* the maximal runs of non-space codepoints of s, as pairs of 1-based
\* first and last positions
WordsOf(s) ==
    {p \in (1..Len(s)) \X (1..Len(s)) :
        /\ p[1] <= p[2]
        /\ \A i \in p[1]..p[2] : ~IsSpace(s[i])
        /\ (p[1] = 1 \/ IsSpace(s[p[1] - 1]))
        /\ (p[2] = Len(s) \/ IsSpace(s[p[2] + 1]))}

\* the codepoints at positions p[1]..p[2] all lie on one sub-line
OnOneLine(lines, p) ==
    \E k \in 1..Len(lines) :
        /\ StartOf(lines, k) < p[1]
        /\ p[2] <= StartOf(lines, k) + Len(lines[k])

\* s with every white-space codepoint written as U+0020
Spaced(s) == [i \in 1..Len(s) |-> IF IsSpace(s[i]) THEN " " ELSE s[i]]

C8_ConcatIsInput == wDone => Concat(wLines) = wRunes

\* C8 amended: the sub-lines laid end to end are the codepoints of s in
\* order, each white-space codepoint written as U+0020, followed by exactly
\* one padding space.
C8_ConcatIsInputPlusPad == wDone => Concat(wLines) = Spaced(wRunes) \o <<" ">>

\* C8 witness: a wrapped input of several sub-lines that holds spaces
C8_Witness ==
    /\ wDone
    /\ Len(wLines) >= 3
    /\ \E i \in 1..Len(wRunes) : wRunes[i] = " "
    /\ \E i \in 1..Len(wRunes) : wRunes[i] = "_"


\* C28 as stated: wrap of an empty sequence of code points, at any width
\* of 1 or more, returns exactly one visual line, and that line is empty
C28_EmptyGivesOneEmptyLine ==
    (wDone /\ wRunes = <<>>) => (Len(wLines) = 1 /\ wLines[1] = <<>>)

\* C28, amended: wrap of an empty sequence of code points, at any width
\* of 1 or more, returns exactly one visual line, and that line holds the
\* padding space of the final flush and nothing else
C28_EmptyGivesOnePaddingLine ==
    (wDone /\ wRunes = <<>>) => wLines = << <<" ">> >>

\* wrap was called on an empty sequence at a width above 1
C28_Witness == wDone /\ wRunes = <<>> /\ wWidth >= 2 /\ Len(wLines) = 1

(***************************************************************************)
(* Properties of the MemoCache (SpecCache).                                *)
(***************************************************************************)
\* C9: Get(k) returns (v, true) with v the value of the most recent Set(k, v)
\* when k has been set and not removed since, and (zero value, false)
\* otherwise.
C9_GetReturnsLastSet ==
    mcLast.op = "Get" =>
        IF mcLast.key \in DOMAIN mcLive
        THEN mcLast.found /\ mcLast.value = mcLive[mcLast.key]
        ELSE ~mcLast.found /\ mcLast.value = ZeroValue

\* C9 witness: a Get hit on a key that is not the front of the list it was
\* pushed to (another key was set after it), in a cache holding two keys
C9_Witness ==
    /\ mcLast.op = "Get"
    /\ mcLast.found
    /\ mcLast.value = NumVals
    /\ Size(mc) >= 2

\* C10: a Set removes an entry only when its key is new and the cache is at
\* capacity, and then it removes the one entry whose last touch is the
\* oldest (nothing when the cache holds no entry); a Set on a held key and a
\* Get remove nothing.
C10_EvictsOnlyOldest ==
    /\ mcLast.op = "Get" => mcLast.removed = {}
    /\ mcLast.op = "Set" /\ mcLast.wasHeld => mcLast.removed = {}
    /\ mcLast.op = "Set" /\ ~mcLast.wasFull => mcLast.removed = {}
    /\ mcLast.op = "Set" /\ ~mcLast.wasHeld /\ mcLast.wasFull =>
          mcLast.removed = IF mcLast.oldest = 0 THEN {}
                           ELSE {Hash(mcLast.oldest)}

\* C10 witness: a Set of a new key on a full cache of two entries removed
\* one of them, and the entry left is not the one pushed last before
C10_Witness ==
    /\ mcLast.op = "Set"
    /\ mcLast.removed # {}
    /\ Size(mc) = 2
    /\ Capacity(mc) = 2

\* C11: the cache never holds more entries than its capacity:
\* Size() <= Capacity() after every call, for every capacity given to
\* NewMemoCache.
C11_SizeWithinCapacity ==
    mcLast.op \in {"Get", "Set"} => Size(mc) <= Capacity(mc)

\* the lookup map, the recency list and the map of items hold the same
\* keys, each once, and every map entry points to its own list element
Consistent(c) ==
    /\ DOMAIN c.cache = HeldKeys(c)
    /\ DOMAIN c.hashableItems = HeldKeys(c)
    /\ \A hk \in DOMAIN c.cache : c.cache[hk] = hk
    /\ \A i, j \in 1..Len(c.evictionList) :
           c.evictionList[i].key = c.evictionList[j].key => i = j

\* what the call of thread t does when made alone on the cache the thread
\* found when it took the mutex
SerialCache(t) ==
    IF lkCall[t].op = "Get" THEN Get(lkSnap[t], lkCall[t].key).c
    ELSE IF lkCall[t].op = "Set"
    THEN Set(lkSnap[t], lkCall[t].key, lkCall[t].value)
    ELSE lkSnap[t]
SerialRet(t) ==
    IF lkCall[t].op = "Get"
    THEN [value |-> Get(lkSnap[t], lkCall[t].key).value,
          found |-> Get(lkSnap[t], lkCall[t].key).found, size |-> 0]
    ELSE IF lkCall[t].op = "Size"
    THEN [NoRet EXCEPT !.size = Size(lkSnap[t])]
    ELSE NoRet

\* C12: the calls of several threads are serialized by the mutex: only the
\* holder of the mutex is inside a method, every call finds the map and the
\* list in step with each other (never half updated), and when it returns
\* the cache and the result are those of the whole call made alone on the
\* cache it found; so an execution equals the calls made one after the other
\* in the order in which they took the mutex.
C12_CallsAreSerialized ==
    /\ lkMutex = 0 => Consistent(mc)
    /\ \A t \in DOMAIN lkPc :
          /\ lkPc[t] # "idle" => lkMutex = t /\ Consistent(lkSnap[t])
          /\ lkPc[t] = "unlock" =>
                 mc = SerialCache(t) /\ lkRet[t] = SerialRet(t)

\* C12 witness: a Set by one thread, on a full cache that calls made before
\* it had filled, has evicted and pushed and is about to unlock, while the
\* cache was last touched by another key
C12_Witness ==
    \E t \in DOMAIN lkPc :
        /\ lkPc[t] = "unlock"
        /\ lkCall[t].op = "Set"
        /\ Size(lkSnap[t]) >= Capacity(lkSnap[t])
        /\ Hash(lkCall[t].key) \notin HeldKeys(lkSnap[t])
        /\ Hash(lkCall[t].key) \in HeldKeys(mc)

\* C27: a Get of a key the cache does not hold has no side effect: the
\* cache (its entries, their values, their recency order, its size) is
\* after the call what it was before, and the call reports "not found"
\* with the zero value.
C27_GetMissChangesNothing ==
    [][(mcLast'.op = "Get" /\ mcLast'.key \notin DOMAIN mcLive) =>
           /\ mc' = mc
           /\ Size(mc') = Size(mc)
           /\ mcLive' = mcLive
           /\ mcOrder' = mcOrder
           /\ mcLast'.found = FALSE
           /\ mcLast'.value = ZeroValue]_vars

\* a Get has missed on a cache that holds two entries
C27_Witness ==
    /\ mcLast.op = "Get"
    /\ ~mcLast.wasHeld
    /\ ~mcLast.found
    /\ Size(mc) >= 2

\* C40 as stated: between operations the lookup map, the recency list and
\* hashableItems hold the same keys, every map entry points to the list
\* element carrying its key, and hashableItems[k] is the value stored in
\* the list entry for k, also after a Set that replaces the value of a key
\* already held
C40_BookkeepingConsistent ==
    /\ Consistent(mc)
    /\ \A i \in 1..Len(mc.evictionList) :
           mc.hashableItems[mc.evictionList[i].key] =
               mc.evictionList[i].value

(***************************************************************************)
(* Properties of the wrap cache (SpecMemo).                                *)
(***************************************************************************)
IsValidRunes(runes) == StringOf(runes) = runes

\* C13: memoizedWrap(runes, width) returns exactly wrap(runes, width)
\* whatever calls and cache recreations came before, and no other
\* (content, width) pair has the cache key of the pair of the call.
C13_CacheTransparent ==
    mwLast # <<>> =>
        /\ mwLast.lines = wrap(mwLast.runes, mwLast.width)
        /\ \A r \in MemoLines, w \in MemoWidths :
               Hash(lineKey(r, w)) = Hash(lineKey(mwLast.runes, mwLast.width))
                 => r = mwLast.runes /\ w = mwLast.width

\* C13, first part alone: the lines returned are those of wrap
C13_ReturnsWrap ==
    mwLast # <<>> => mwLast.lines = wrap(mwLast.runes, mwLast.width)

\* C13 for lines of valid codepoints only: there the cache is transparent
C13_TransparentForValidRunes ==
    mwLast # <<>> /\ IsValidRunes(mwLast.runes) =>
        /\ mwLast.lines = wrap(mwLast.runes, mwLast.width)
        /\ \A r \in MemoLines, w \in MemoWidths :
               Hash(lineKey(r, w)) = Hash(lineKey(mwLast.runes, mwLast.width))
                 => r = mwLast.runes /\ w = mwLast.width

\* C37 as stated: when several contexts call memoizedWrap on one cache,
\* with equal or different arguments, every call returns wrap(runes, width)
\* for its own arguments, however the Get and the Set of the calls
\* interleave.
C37_SharedCallsReturnWrap ==
    \A t \in Threads :
        lkPc[t] = "done" =>
            lkRet[t] = wrap(lkCall[t].runes, lkCall[t].width)

(***************************************************************************)
(* Properties of the text area (Spec).                                     *)
(***************************************************************************)
\* the offset of the cursor in Value(): the codepoints and line-breaks
\* before it
Offset == Len(ValueOf(SubSeq(value, 1, row + 1))) - Len(value[row + 1]) + col

\* the plain string reference model
RefInsert(s, p, t) == SubSeq(s, 1, p) \o t \o SubSeq(s, p + 1, Len(s))
RefDeleteBefore(s, p) ==
    IF p = 0 THEN s ELSE SubSeq(s, 1, p - 1) \o SubSeq(s, p + 1, Len(s))
RefDeleteAfter(s, p) ==
    IF p = Len(s) THEN s ELSE SubSeq(s, 1, p) \o SubSeq(s, p + 2, Len(s))

\* C1, insert part: an insert takes Value() to the reference string with
\* the (sanitized) text inserted at the cursor offset
C1_InsertRefines ==
    [][/\ \A r \in TypedRunes : RunesMsg(r) =>
              ValueOf(value') = RefInsert(ValueOf(value), Offset, <<r>>)
       /\ \A t \in Inputs : PasteMsg(t) =>
              ValueOf(value') = RefInsert(ValueOf(value), Offset, Sanitize(t))
      ]_vars

\* C1, deleteBefore part
C1_BackspaceRefines ==
    [][KeyMsg("DeleteCharacterBackward") =>
          ValueOf(value') = RefDeleteBefore(ValueOf(value), Offset)]_vars

\* C1, deleteAfter part
C1_DeleteRefines ==
    [][KeyMsg("DeleteCharacterForward") =>
          ValueOf(value') = RefDeleteAfter(ValueOf(value), Offset)]_vars

\* C1: every insert, deleteBefore and deleteAfter step takes Value() to the
\* result of the same edit on a plain string at the cursor offset; so Value()
\* follows the reference model over any sequence of such edits.
C1_ValueRefinesString ==
    [][/\ \A r \in TypedRunes : RunesMsg(r) =>
              ValueOf(value') = RefInsert(ValueOf(value), Offset, <<r>>)
       /\ \A t \in Inputs : PasteMsg(t) =>
              ValueOf(value') = RefInsert(ValueOf(value), Offset, Sanitize(t))
       /\ KeyMsg("DeleteCharacterBackward") =>
              ValueOf(value') = RefDeleteBefore(ValueOf(value), Offset)
       /\ KeyMsg("DeleteCharacterForward") =>
              ValueOf(value') = RefDeleteAfter(ValueOf(value), Offset)
      ]_vars

\* C2: one deleteBefore or deleteAfter removes exactly one unit: the
\* codepoint on its side of the cursor when the current line has one there,
\* and otherwise the line-break to the adjacent line; never both.
C2_DeletesOneUnit ==
    [][/\ KeyMsg("DeleteCharacterForward") =>
            IF col < Len(value[row + 1])
            THEN value' = [value EXCEPT ![row + 1] = RemoveAt(@, col)]
            ELSE IF row < Len(value) - 1
            THEN /\ Len(value') = Len(value) - 1
                 /\ ValueOf(value') = RefDeleteAfter(ValueOf(value), Offset)
            ELSE value' = value
       /\ KeyMsg("DeleteCharacterBackward") =>
            IF col > 0
            THEN value' = [value EXCEPT ![row + 1] = RemoveAt(@, col - 1)]
            ELSE IF row > 0
            THEN /\ Len(value') = Len(value) - 1
                 /\ ValueOf(value') = RefDeleteBefore(ValueOf(value), Offset)
            ELSE value' = value
      ]_vars

\* C3: every key-driven operation of the text area returns.
C3_EveryKeyTerminates == ~hung

\* C4: the cursor is within bounds: 0 <= row < LineCount() and
\* 0 <= col <= len(Line[row]).
C4_CursorInBounds ==
    /\ 0 <= row /\ row < Len(value)
    /\ 0 <= col /\ col <= Len(value[row + 1])

\* C4 witness: a vertical move to the second line landed on a line shorter
\* than the remembered offset, at the end of that line
C4_Witness ==
    /\ lastOp = "vertical"
    /\ row = 1
    /\ lastCharOffset > col
    /\ col = Len(value[row + 1])

\* C5: no handler aborts on a slice or index out of range.
C5_NoPanic == ~panicked

\* C5 witness: a transpose or case change at the end of a line of two
\* codepoints or more has written into the line
C5_Witness ==
    /\ lastOp = "edit"
    /\ ~panicked /\ ~hung
    /\ Len(value[row + 1]) >= 2
    /\ col = Len(value[row + 1])
    /\ value[row + 1][col] = "A"


\* the keys that move the cursor within its line or to a neighbouring
\* character or word
HorizontalKeys ==
    {"CharacterForward", "CharacterBackward", "WordForward", "WordBackward",
     "LineStart", "LineEnd"}

\* C14: every horizontal move (character left or right, word left or right,
\* line start or end) that returns leaves the horizontal memory
\* lastCharOffset reset, so that the next vertical move starts from the
\* display column the cursor is at.
C14_HorizontalResetsMemory ==
    [][\A k \in HorizontalKeys :
          KeyMsg(k) /\ ~hung' /\ ~panicked' => lastCharOffset' = 0]_vars

\* a horizontal key that changes the cursor position resets the memory
C14_MovedCursorResetsMemory ==
    [][\A k \in HorizontalKeys :
          KeyMsg(k) /\ ~hung' /\ ~panicked' /\ <<row, col>>' # <<row, col>>
             => lastCharOffset' = 0]_vars

\* C15: within a run of consecutive vertical moves each move lands the
\* cursor at display column min(R, W): R (runMax) is the largest
\* display-column offset the cursor had at the start of a move of the run,
\* W the last cursor position of the visual line the cursor is on after
\* the move.
C15_LandsAtRememberedColumn ==
    lastOp = "vertical" /\ ~hung /\ ~panicked =>
        LET li == LineInfo(M, width)
        IN  li.CharOffset = min(runMax, li.CharWidth - 1)

\* the buffer holds no glyph of display width 2
NarrowOnly ==
    \A i \in 1..Len(value) : \A j \in 1..Len(value[i]) :
        RuneWidth(value[i][j]) = 1

\* the landing rule holds when every glyph has display width 1 and the
\* memory holds nothing older than the run
C15_NarrowFreshMemoryLands ==
    NarrowOnly /\ lastCharOffset <= runMax => C15_LandsAtRememberedColumn

\* the visual line the cursor is on, and the number of visual lines
VisualLine == cursorLineNumber(M, width)
VisualLines == WrappedLinesBefore(value, Len(value), width)

\* a LinePrevious / LineNext key that returns changes the visual line of the
\* cursor by exactly -1 / +1, or leaves it unchanged when the cursor is on
\* the first / last visual line of the document
MovesOneLine ==
    /\ KeyMsg("LinePrevious") /\ ~hung' /\ ~panicked' =>
          VisualLine' = IF VisualLine = 0 THEN 0 ELSE VisualLine - 1
    /\ KeyMsg("LineNext") /\ ~hung' /\ ~panicked' =>
          VisualLine' = IF VisualLine = VisualLines - 1 THEN VisualLine
                        ELSE VisualLine + 1

\* C16: CursorUp / CursorDown move the cursor by exactly one visual line
\* (or not at all on the first / last visual line) and never skip one.
C16_VerticalMovesOneLine == [][MovesOneLine]_vars

\* Length()
Length == LengthOf(value)

\* C19: with a character limit L > 0, typed runes, a paste or SetValue
\* never bring Length() above L.
C19_InsertRespectsCharLimit ==
    [][CharLimit > 0 /\ lastOp' \in {"insert", "call"} /\ Length <= CharLimit
          => Length' <= CharLimit]_vars

\* where a vertical move of the text area m0 ends: the cursor after
\* CursorUp and after CursorDown
LandingOf(m0, wd) ==
    LET up == CursorUp(m0, wd)
        down == CursorDown(m0, wd)
    IN  <<up.row, up.col, up.hung, up.panic,
          down.row, down.col, down.hung, down.panic>>

\* a vertical move of m0 lands by the present display column of the cursor
\* alone
LandsByCurrentColumn(m0, wd) ==
    LandingOf(m0, wd) = LandingOf([m0 EXCEPT !.lco = 0], wd)

\* C35 as stated: Enter (a line split) and Backspace at column 0 (a merge
\* with the line above) reset the horizontal memory too: the vertical move
\* that follows lands by the display column the cursor has after the edit,
\* not by a column remembered from vertical moves made before it.
C35_EditResetsMemory ==
    [][(/\ \/ lastOp' = "newline"
           \/ (lastOp' = "delete" /\ col = 0 /\ row' = row - 1)
        /\ ~hung' /\ ~panicked')
          => LandsByCurrentColumn(
                 [value |-> value', row |-> row', col |-> col',
                  lco |-> lastCharOffset', panic |-> FALSE, hung |-> FALSE],
                 width')]_vars

\* C36 as stated: with a character limit L > 0, a line-break inserted with
\* the Enter key (InsertNewline) never brings Length(), which counts one
\* unit per line-break, above L.
C36_NewlineRespectsCharLimit ==
    [][CharLimit > 0 /\ lastOp' = "newline" /\ Length <= CharLimit
          => Length' <= CharLimit]_vars

\* LineCount()
LineCount == Len(value)

\* C20: LineCount() never exceeds MaxHeight when MaxHeight > 0, nor
\* maxLines, whatever is typed, pasted, set with SetValue or split with
\* Enter.
C20_LineCountWithinMaxHeight ==
    /\ MaxHeight > 0 => LineCount <= MaxHeight
    /\ LineCount <= maxLines

\* C22: after every mutating operation (line merges, deletions on an
\* empty document, Reset, SetValue("") included) the buffer holds at least
\* one line.
C22_AtLeastOneLine == Len(value) >= 1

\* a deletion, a Reset or a SetValue("") has left the document empty
C22_Witness ==
    /\ lastOp \in {"delete", "call"}
    /\ value = << <<>> >>

\* the text of the cursor's line fills the wrap width exactly and the
\* cursor is at its end
AtEndOfFullLine ==
    /\ ~hung /\ ~panicked
    /\ StringWidth(value[row + 1]) = width
    /\ col = Len(value[row + 1])

NarrowOneWordOrEndsWithSpace(l) ==
    /\ \A i \in 1..Len(l) : RuneWidth(l[i]) = 1
    /\ \/ ~HasSpace(l)
       \/ (Len(l) > 0 /\ IsSpace(l[Len(l)]))

UpKey == "LinePrevious"
DownKey == "LineNext"

\* C17: with the lines "Hello", "World", "This is a long line." and the
\* cursor at (2,20), up lands at (1,5), up again at (0,5), and two downs
\* bring the cursor back to (2,20) through (1,5).
C17_RemembersColumnWhileTraversing ==
    value = RememberLines =>
        /\ scKeys = <<>> => row = 2 /\ col = 20
        /\ scKeys = <<UpKey>> => row = 1 /\ col = 5
        /\ scKeys = <<UpKey, UpKey>> => row = 0 /\ col = 5
        /\ scKeys = <<UpKey, UpKey, DownKey>> => row = 1 /\ col = 5
        /\ scKeys = <<UpKey, UpKey, DownKey, DownKey>> => row = 2 /\ col = 20

C17_Witness ==
    /\ value = RememberLines
    /\ scKeys = <<UpKey, UpKey, DownKey, DownKey>>
    /\ row = 2 /\ col = 20

\* C18: with the lines of four double-width glyphs and "Hello", the cursor
\* at code point offset 2 of line 0 has display offset 4, and down lands at
\* code point offset 4 of "Hello", which is display offset 4.
C18_KeepsDisplayColumn ==
    value = KeepLines =>
        /\ scKeys = <<>> =>
              /\ row = 0 /\ col = 2
              /\ LineInfo(M, width).CharOffset = 4
              /\ LineInfo(M, width).ColumnOffset = 2
        /\ scKeys = <<DownKey>> =>
              /\ row = 1 /\ col = 4
              /\ LineInfo(M, width).CharOffset = 4
              /\ LineInfo(M, width).ColumnOffset = 4

C18_Witness ==
    /\ value = KeepLines
    /\ scKeys = <<DownKey>>
    /\ row = 1 /\ col = 4

(***************************************************************************)
(* Properties of Update (SpecUpdate).                                      *)
(***************************************************************************)
\* C21: after every Update the capacity of the wrap cache equals MaxHeight.
C21_CapacityFollowsMaxHeight ==
    lastOp = "Update" => Capacity(mwCache) = MaxHeight

\* after every Update of a focused text area whose MaxHeight is positive
\* the capacity of the wrap cache equals MaxHeight
C21_CapacityFollowsPositiveMaxHeight ==
    lastOp = "Update" /\ focus /\ MaxHeight > 0 =>
        Capacity(mwCache) = MaxHeight

C21_Witness ==
    /\ lastOp = "Update" /\ focus
    /\ MaxHeight = SmallMaxHeight
    /\ Capacity(mwCache) = SmallMaxHeight
    /\ Size(mwCache) = SmallMaxHeight

\* C29: a text area that is not focused takes no keyboard input: an Update,
\* whatever its message, made while the text area is blurred leaves the
\* buffer, the cursor (row and column) and the horizontal memory as they
\* were.
C29_BlurredUpdateChangesNothing ==
    [][(lastOp' = "Update" /\ ~focus) =>
           UNCHANGED <<value, row, col, lastCharOffset>>]_vars

\* a blurred text area whose buffer holds text, with the cursor inside it,
\* has handled an Update
C29_Witness ==
    /\ lastOp = "Update"
    /\ ~focus
    /\ LengthOf(value) >= 2
    /\ Len(value) >= 2
    /\ row < Len(value) - 1

(***************************************************************************)
(* Properties of single editing operations (SpecEdit).                     *)
(***************************************************************************)
\* the offset of the cursor (r, c) in the joined lines
OffsetOf(lines, r, c) ==
    Len(ValueOf(SubSeq(lines, 1, r + 1))) - Len(lines[r + 1]) + c

\* the number of line-breaks of a text, and its part after the last one
Breaks(t) == Len(SplitLines(t, <<>>)) - 1
LastRun(t) == SplitLines(t, <<>>)[Breaks(t) + 1]

\* the character limit left room for the whole text
NoCapReached ==
    CharLimit <= 0 \/ CharLimit - LengthOf(edPre.value) >= Len(edText)

\* C23: inserting a text t free of control characters, no cap reached, at
\* the cursor offset p of a document d yields d[0..p) + t + d[p..) and
\* leaves the cursor right after the inserted text: the row advanced by
\* the line-breaks of t, the column at the end of the last inserted run.
C23_InsertSplicesAtCursor ==
    edOp = "insert" /\ Sanitize(edText) = edText /\ NoCapReached =>
        /\ ~panicked /\ ~hung
        /\ ValueOf(value) =
              RefInsert(ValueOf(edPre.value),
                        OffsetOf(edPre.value, edPre.row, edPre.col), edText)
        /\ row = edPre.row + Breaks(edText)
        /\ col = IF Breaks(edText) = 0 THEN edPre.col + Len(edText)
                 ELSE Len(LastRun(edText))

\* a text with a line-break was inserted in the middle of a line of a
\* document of two lines
C23_Witness ==
    /\ edOp = "insert"
    /\ Breaks(edText) = 1 /\ Len(LastRun(edText)) = 1
    /\ edPre.row = 0 /\ Len(edPre.value) = 2
    /\ edPre.col = 1 /\ Len(edPre.value[1]) = 2
    /\ Len(value) = 3 /\ row = 1 /\ col = 1

\* C24: splitting line r at column c moves the cursor to (r+1, 0), and
\* merging the new line into the one above then restores the buffer and
\* the cursor position (r, c).
C24_MergeUndoesSplit ==
    /\ edOp = "split" =>
          /\ ~panicked
          /\ row = edPre.row + 1 /\ col = 0
          /\ Len(value) = Len(edPre.value) + 1
    /\ edOp = "merged" =>
          /\ ~panicked
          /\ value = edPre.value
          /\ row = edPre.row /\ col = edPre.col

\* a line was split in its middle, between two other lines kept as they
\* are, and merged again
C24_Witness ==
    /\ edOp = "merged"
    /\ row = 0 /\ col = 1
    /\ Len(value) = 2 /\ Len(value[1]) = 2

(***************************************************************************)
(* Properties of SetWidth (SpecWidth).                                     *)
(***************************************************************************)
\* C26 as stated: after SetWidth(w), whatever w, the prompt, the line
\* numbers, the frame of the base style and MaxWidth are, the width of the
\* text (the width given to wrap) is at least 1
C26_WidthAtLeastOne == lastOp = "SetWidth" => width >= 1

(***************************************************************************)
(* Properties of the timer (SpecTimer).                                    *)
(***************************************************************************)
\* the TickMsg pending that Update would act on as the timer is now
LiveTicks ==
    {i \in 1..Len(tmTicks) :
        /\ Running
        /\ ~(tmTicks[i].ID # 0 /\ tmTicks[i].ID # timerId)
        /\ ~(tmTicks[i].tag > 0 /\ tmTicks[i].tag # tag)}

\* C30 as stated: whatever Start, Stop and Toggle are called and however
\* their messages fall between the pending ticks, at most one chain of
\* ticks is live, and Timeout has gone down by at most one Interval for
\* each Interval of time elapsed
C30_NeverTicksTooFast ==
    /\ Cardinality(LiveTicks) <= 1
    /\ TimerTimeout - Timeout <= tmClock

(***************************************************************************)
(* Properties of the paginator (SpecPaginator).                            *)
(***************************************************************************)
\* C32 as stated: NextPage never goes past the last page: whatever
\* SetTotalPages, PrevPage and NextPage calls were made, Page is at most
\* TotalPages - 1 after every NextPage.
C32_NextPageStaysWithinPages ==
    pgLast = "NextPage" => Page <= TotalPages - 1


(***************************************************************************)
(* Properties of the viewport (SpecViewport).                              *)
(***************************************************************************)
\* C34: the viewport never over-scrolls horizontally: after SetXOffset,
\* ScrollLeft or ScrollRight, 0 <= xOffset <= max(0, longestLineWidth -
\* Width).  Violated: clamp swaps its bounds when the content is narrower
\* than the viewport, so ScrollLeft there lets xOffset go below 0.
C34_NoHorizontalOverscroll ==
    vpLast \in {"SetXOffset", "ScrollLeft", "ScrollRight"}
        => /\ 0 <= xOffset
           /\ xOffset <= max(0, longestLineWidth - vpWidth)


(***************************************************************************)
(* Properties of the text area and its viewport (SpecView).                *)
(***************************************************************************)
\* C38: after every Update of the focused text area, once View has given
\* the viewport its content, the visual line of the cursor lies in
\* [YOffset, YOffset + Height - 1].  Violated: ScrollDown stops at the
\* last offset of the content of the last View.
C38_CursorLineInsideViewport ==
    (lastOp = "Update" /\ vpLines # <<>>)
        => /\ YOffset <= cursorLineNumber(M, width)
           /\ cursorLineNumber(M, width) <= YOffset + vpHeight - 1


(***************************************************************************)
(* Properties of the blinking cursors (SpecCursor).                        *)
(***************************************************************************)
\* C31: a BlinkMsg toggles Blink of a cursor only if it comes from the
\* command this cursor issued last, while the cursor is focused and in
\* blink mode.  Violated: New() gives every cursor the id 0, so a cursor
\* takes the BlinkMsg of another cursor that carries its current tag.
C31_ToggleOnlyByLatestBlinkCmd ==
    cuLast.toggled
        => /\ cuLast.own
           /\ cuLast.fromLatest
           /\ cuLast.focus
           /\ cuLast.blinkMode


(***************************************************************************)
(* Properties of the list (SpecList).                                      *)
(***************************************************************************)
\* C33: whenever SelectedItem() is not nil, GlobalIndex() is the position
\* of that item in the unfiltered items.  Violated: the matches the Filter
\* key puts in place all carry the index 0, and they stay until the
\* FilterMatchesMsg of the typed filter arrives.
C33_GlobalIndexDesignatesSelectedItem ==
    SelectedItem(L) # nil
        => /\ GlobalIndex(L) >= 0
           /\ GlobalIndex(L) < Len(liItems)
           /\ liItems[GlobalIndex(L) + 1] = SelectedItem(L)

\* C39: after RemoveItem on a list that still has items, 0 <= Index() <
\* len(VisibleItems()).  Violated: updatePagination restores the old index
\* and bounds the page, not the cursor.
C39_RemoveItemKeepsSelection ==
    (liLast = "RemoveItem" /\ Len(liItems) > 0)
        => /\ 0 <= Index(L)
           /\ Index(L) < Len(VisibleItems(L))

=============================================================================
